---- MODULE Spec2Model ----
(***************************************************************************)
(* Model of src/new_index/schema.rs: the Store, the Indexer pipeline       *)
(* (add -> index -> tweak -> flush -> tip sentinel -> apply) and the       *)
(* ChainQuery aggregates (stats, utxo) with their caches.                   *)
(*                                                                         *)
(* A block hash is modelled by the sequence of block contents from the     *)
(* block after genesis up to the block itself, so that the parent of a     *)
(* block is the sequence without its last element and the height is the    *)
(* length.  Genesis is the empty sequence.                                  *)
(***************************************************************************)
EXTENDS Integers, Sequences, FiniteSets, TLC

\* ---------------------------------------------------------------- bounds
MaxHeight == 2      \* highest block height of the node (pipeline specification)
MaxHeightQ == 3     \* highest block height of the node (query specification)
MaxReorgs == 2      \* number of reorganisations of the node's chain
MaxCrashes == 1     \* number of process crashes
UsizeMod == 65536   \* modulus of the (scaled down) usize wrap-around
MaxLimit == 2       \* largest limit passed to utxo()
MaxHeightF == 3     \* highest block height of the node (fetch-source specification)
MaxCacheHeight == 1 \* largest height and tip passed to store_tweak_cache_height()

\* ------------------------------------------------------- program constants
\* MIN_HISTORY_ITEMS_TO_CACHE is 100 in the source; the model scales it to 1
\* so that a cache entry is persisted by the small histories explored here.
MIN_HISTORY_ITEMS_TO_CACHE == 1
\* iconfig.sp_begin_height (default MIN_SP_TWEAK_HEIGHT), scaled to the model.
sp_begin_height == 1
\* iconfig.sp_min_dust (default 1_000), scaled to the model's amounts.
sp_min_dust == 1
\* width of the u16 fields of the row keys
U16Mod == 65536

light_mode == FALSE
address_search == TRUE
index_unspendables == FALSE
InitialFetchFrom == "BlkFiles"

\* ------------------------------------------------------------ chain data
\* Option values: None is the empty sequence, Some(x) the one-element sequence
None == << >>
Some(x) == << x >>
NullHash == << "null" >>
NullOutPoint == [txid |-> 0, vout |-> 0]

\* The transactions of the modelled chain.
\* T0 (txid 1) is a coinbase paying 2 to the tracked script A; T1 (txid 2)
\* spends (T0,0) and pays 1 back to A; T2 (txid 3) spends (T1,0) and pays 1
\* to another script B with an output that is not taproot.
Txids == {1, 2, 3}

Tx(txid) ==
    IF txid = 1
    THEN [txid |-> 1,
          input |-> << [previous_output |-> NullOutPoint, pubkey |-> FALSE] >>,
          output |-> << [script_pubkey |-> "A", value |-> 2,
                         spendable |-> TRUE, p2tr |-> TRUE] >>]
    ELSE IF txid = 2
    THEN [txid |-> 2,
          input |-> << [previous_output |-> [txid |-> 1, vout |-> 0], pubkey |-> TRUE] >>,
          output |-> << [script_pubkey |-> "A", value |-> 1,
                         spendable |-> TRUE, p2tr |-> TRUE] >>]
    ELSE [txid |-> 3,
          input |-> << [previous_output |-> [txid |-> 2, vout |-> 0], pubkey |-> FALSE] >>,
          output |-> << [script_pubkey |-> "B", value |-> 1,
                         spendable |-> TRUE, p2tr |-> FALSE] >>]

\* Block contents: "e" holds no transaction of the model, "f" holds T0, "s"
\* holds T1, "t" holds T2.
Menu == {"e", "f", "s", "t"}

Count(c, x) == Cardinality({i \in 1..Len(c) : c[i] = x})

\* A chain the node can serve: every transaction is confirmed at most once
\* and T1 only after the T0 it spends.
ValidChain(c) ==
    /\ Count(c, "f") <= 1
    /\ Count(c, "s") <= 1
    /\ Count(c, "t") <= 1
    /\ \A i \in 1..Len(c) : c[i] = "s" => \E j \in 1..(i-1) : c[j] = "f"
    /\ \A i \in 1..Len(c) : c[i] = "t" => \E j \in 1..(i-1) : c[j] = "s"

RECURSIVE SeqsUpTo(_)
SeqsUpTo(n) ==
    IF n = 0 THEN {<< >>}
    ELSE LET S == SeqsUpTo(n-1)
         IN S \cup {Append(s, x) : s \in {q \in S : Len(q) = n-1}, x \in Menu}

BlockHashes(maxh) == {c \in SeqsUpTo(maxh) : ValidChain(c)}

Genesis == << >>
Height(b) == Len(b)
PrevHash(b) == IF b = Genesis THEN NullHash ELSE SubSeq(b, 1, Len(b)-1)
IsPrefix(a, b) == Len(a) <= Len(b) /\ SubSeq(b, 1, Len(a)) = a

\* the block fetched for a header: its ordered transaction list
BlockTxdata(b) ==
    IF b = Genesis \/ b[Len(b)] = "e" THEN << >>
    ELSE IF b[Len(b)] = "f" THEN << Tx(1) >>
    ELSE IF b[Len(b)] = "s" THEN << Tx(2) >> ELSE << Tx(3) >>

U16(n) == n % U16Mod

\* -------------------------------------------------------------- sequences
Range(s) == {s[i] : i \in 1..Len(s)}

RECURSIVE SeqFilter(_, _)
SeqFilter(s, keep) ==
    IF s = << >> THEN << >>
    ELSE IF s[1] \in keep THEN << s[1] >> \o SeqFilter(Tail(s), keep)
         ELSE SeqFilter(Tail(s), keep)

\* ------------------------------------------------------------------- DB
\* A namespace is a set of rows [k |-> key, v |-> value]; a write of a batch
\* replaces the rows with the same keys.
Namespaces == {"txstore", "history", "tweak", "cache"}

Row(k, v) == [k |-> k, v |-> v]
Keys(rows) == {r.k : r \in rows}
ApplyBatch(db, rows) == {r \in db : r.k \notin Keys(rows)} \cup rows

RECURSIVE ApplyBatches(_, _)
ApplyBatches(db, batches) ==
    IF batches = << >> THEN db
    ELSE ApplyBatches(ApplyBatch(db, batches[1]), Tail(batches))

VARIABLES
    node,        \* the node's best chain tip (a block hash)
    reorgs,      \* reorganisations so far
    crashes,     \* crashes so far
    overflow_checks, \* build profile: TRUE = arithmetic overflow panics
    rpc_failed,  \* a node RPC call of the current update() returned Err
    disk,        \* namespace -> durable rows
    mem,         \* namespace -> sequence of written, not yet flushed batches
    added_blockhashes,  \* Store.added_blockhashes
    indexed_headers,    \* Store.indexed_headers: sequence of block hashes
    flush,       \* Indexer.flush
    from,        \* Indexer.from
    pc,          \* position of update()
    tip,         \* update(): tip
    headers_not_indexed, \* update(): headers_not_indexed
    work,        \* update(): headers of the current stage not yet processed
    full_compactions, \* namespace -> full compactions run on the database so far
    auto_compaction,  \* namespace -> background auto-compaction is enabled
    query        \* the stats() / utxo() call in progress on another thread, or None

vars == <<node, reorgs, crashes, overflow_checks, rpc_failed, disk, mem, added_blockhashes,
          indexed_headers, flush, from, pc, tip, headers_not_indexed, work,
          full_compactions, auto_compaction, query>>

\* The state of the process (Store, Indexer, position of update()) as one
\* record: every operation below maps such a record to the next one.
Cur ==
    [disk |-> disk, mem |-> mem, added_blockhashes |-> added_blockhashes,
     indexed_headers |-> indexed_headers, flush |-> flush, from |-> from,
     pc |-> pc, tip |-> tip, headers_not_indexed |-> headers_not_indexed,
     work |-> work, full_compactions |-> full_compactions,
     auto_compaction |-> auto_compaction, query |-> query]

Is(st) ==
    /\ disk = st.disk
    /\ mem = st.mem
    /\ added_blockhashes = st.added_blockhashes
    /\ indexed_headers = st.indexed_headers
    /\ flush = st.flush
    /\ from = st.from
    /\ pc = st.pc
    /\ tip = st.tip
    /\ headers_not_indexed = st.headers_not_indexed
    /\ work = st.work
    /\ full_compactions = st.full_compactions
    /\ auto_compaction = st.auto_compaction
    /\ query = st.query

Becomes(st) ==
    /\ disk' = st.disk
    /\ mem' = st.mem
    /\ added_blockhashes' = st.added_blockhashes
    /\ indexed_headers' = st.indexed_headers
    /\ flush' = st.flush
    /\ from' = st.from
    /\ pc' = st.pc
    /\ tip' = st.tip
    /\ headers_not_indexed' = st.headers_not_indexed
    /\ work' = st.work
    /\ full_compactions' = st.full_compactions
    /\ auto_compaction' = st.auto_compaction
    /\ query' = st.query

\* what a read of the namespace sees: durable rows and unflushed writes
View(st, ns) == ApplyBatches(st.disk[ns], st.mem[ns])

DbGet(st, ns, k) ==
    LET hit == {r \in View(st, ns) : r.k = k}
    IN IF hit = {} THEN None ELSE Some((CHOOSE r \in hit : TRUE).v)

\* DB::write(rows, flush): a write with DBFlush::Enable is synced and durable
\* at once, a write with DBFlush::Disable stays in the write buffer until the
\* next flush
DbWrite(st, ns, rows, fl) ==
    IF fl = "Enable"
    THEN [st EXCEPT !.disk[ns] = ApplyBatch(@, rows)]
    ELSE [st EXCEPT !.mem[ns] = Append(@, rows)]

\* DB::flush(): everything written so far becomes durable
DbFlush(st, ns) ==
    [st EXCEPT !.disk[ns] = ApplyBatches(@, st.mem[ns]), !.mem[ns] = << >>]

\* DB::put_sync(key, value): one row, synced
DbPutSync(st, ns, k, v) == DbWrite(st, ns, {Row(k, v)}, "Enable")

\* ------------------------------------------------------------ HeaderList
\* The list is the sequence of the best chain's block hashes; the entry at
\* index i has height i-1.
InList(list, h) == \E i \in 1..Len(list) : list[i] = h

header_by_blockhash(list, h) ==
    IF InList(list, h)
    THEN LET i == CHOOSE j \in 1..Len(list) : list[j] = h
         IN Some([height |-> i - 1, hash |-> h])
    ELSE None

header_by_height(list, height) ==
    IF height + 1 \in 1..Len(list)
    THEN Some([height |-> height, hash |-> list[height + 1]])
    ELSE None

ListTip(list) == IF list = << >> THEN NullHash ELSE list[Len(list)]

\* HeaderList::apply: nothing for no headers; otherwise the list is cut at
\* the height of the first new header and the new headers are appended
HeaderListApply(list, new_headers) ==
    IF new_headers = << >> THEN list
    ELSE SubSeq(list, 1, Height(new_headers[1])) \o new_headers

\* HeaderList::new(headers_map, tip): the chain from genesis to tip, read
\* back through the prev links of the stored headers (headers_map: hash ->
\* header, as a set of B rows); a header missing from the map is fatal
RECURSIVE HeaderListNew(_, _)
HeaderListNew(headers_map, h) ==
    IF h = NullHash THEN [ok |-> TRUE, list |-> << >>]
    ELSE LET hit == {r \in headers_map : r.k[2] = h}
         IN IF hit = {} THEN [ok |-> FALSE, list |-> << >>]
            ELSE LET rest == HeaderListNew(headers_map,
                                           (CHOOSE r \in hit : TRUE).v.prev_blockhash)
                 IN [ok |-> rest.ok, list |-> Append(rest.list, h)]

\* Daemon::get_new_headers(list, tip): walk back from tip until a header of
\* the list is met; oldest first
RECURSIVE get_new_headers(_, _)
get_new_headers(list, h) ==
    IF h = NullHash \/ InList(list, h) THEN << >>
    ELSE Append(get_new_headers(list, PrevHash(h)), h)

\* ------------------------------------------------------------------ rows
BlockId(entry) == [height |-> entry.height, hash |-> entry.hash]

TxConfRow(tx, blockhash) == Row(<<"C", tx.txid, blockhash>>, << >>)
TxRow(tx) == Row(<<"T", tx.txid>>, <<"raw", tx.txid>>)
TxOutRow(txid, vout, txout) == Row(<<"O", txid, U16(vout)>>, txout)
TxOutKey(outpoint) == <<"O", outpoint.txid, U16(outpoint.vout)>>
BlockRow_new_header(b) == Row(<<"B", b>>, [prev_blockhash |-> PrevHash(b)])
BlockRow_new_txids(b, txids) == Row(<<"X", b>>, txids)
BlockRow_new_meta(b) == Row(<<"M", b>>, [tx_count |-> Len(BlockTxdata(b))])
BlockRow_new_tweaks(b, tweaks) == Row(<<"W", b>>, tweaks)
BlockRow_new_done(b) == Row(<<"D", b>>, << >>)

\* TxHistoryRow: H{scripthash}{height}{Funding = 0 | Spending = 1}{...}
FundingRow(spk, height, txid, vout, value) ==
    Row(<<"H", spk, height, 0, txid, U16(vout), value>>, << >>)
SpendingRow(spk, height, txid, vin, prev_txid, prev_vout, value) ==
    Row(<<"H", spk, height, 1, txid, U16(vin), prev_txid, U16(prev_vout), value>>, << >>)
TxEdgeRow(funding_txid, funding_vout, spending_txid, spending_vin) ==
    Row(<<"S", funding_txid, U16(funding_vout), spending_txid, U16(spending_vin)>>, << >>)

has_prevout(txin) == txin.previous_output # NullOutPoint
is_spendable(txo) == txo.spendable

\* load_blockhashes(db, BlockRow::done_filter())
load_blockhashes(rows) == {r.k[2] : r \in {q \in rows : q.k[1] = "D"}}
\* load_blockheaders(db)
load_blockheaders(rows) == {q \in rows : q.k[1] = "B"}

\* ------------------------------------------------------------- stage add
add_transaction(tx, blockhash) ==
    {TxConfRow(tx, blockhash)}
    \cup (IF light_mode THEN {} ELSE {TxRow(tx)})
    \cup {TxOutRow(tx.txid, i - 1, tx.output[i]) :
             i \in {j \in 1..Len(tx.output) : is_spendable(tx.output[j])}}

\* the rows add_blocks builds for one block
add_block_rows(b) ==
    LET txdata == BlockTxdata(b)
        txids == [i \in 1..Len(txdata) |-> txdata[i].txid]
    IN UNION {add_transaction(txdata[i], b) : i \in 1..Len(txdata)}
       \cup (IF light_mode THEN {}
             ELSE {BlockRow_new_txids(b, txids), BlockRow_new_meta(b)})
       \cup {BlockRow_new_header(b), BlockRow_new_done(b)}

add_blocks(blocks) == UNION {add_block_rows(b) : b \in Range(blocks)}

\* ----------------------------------------------------------- stage index
BlockInputs(b) ==
    LET txdata == BlockTxdata(b)
    IN UNION {{txdata[i].input[j] : j \in 1..Len(txdata[i].input)} : i \in 1..Len(txdata)}

get_previous_txos(blocks) ==
    {txin.previous_output :
        txin \in {x \in UNION {BlockInputs(b) : b \in Range(blocks)} : has_prevout(x)}}

\* lookup_txo(txstore_db, outpoint)
lookup_txo(st, outpoint) == DbGet(st, "txstore", TxOutKey(outpoint))

\* lookup_txos(..., allow_missing = false) panics on a missing row
lookup_txos_missing(st, outpoints) == \E o \in outpoints : lookup_txo(st, o) = None

\* addr_search_row(spk, network)
addr_search_row(spk) == Row(<<"a", spk>>, << >>)

index_transaction(st, tx, confirmed_height) ==
    LET funded == {j \in 1..Len(tx.output) :
                      is_spendable(tx.output[j]) \/ index_unspendables}
    IN
    {FundingRow(tx.output[i].script_pubkey, confirmed_height, tx.txid, i - 1,
                tx.output[i].value) : i \in funded}
    \cup (IF address_search
          THEN {addr_search_row(tx.output[i].script_pubkey) : i \in funded}
          ELSE {})
    \cup UNION {
        LET txi == tx.input[i]
            prev_txo == lookup_txo(st, txi.previous_output)[1]
        IN {SpendingRow(prev_txo.script_pubkey, confirmed_height, tx.txid, i - 1,
                        txi.previous_output.txid, txi.previous_output.vout,
                        prev_txo.value),
            TxEdgeRow(txi.previous_output.txid, txi.previous_output.vout,
                      tx.txid, i - 1)} :
        i \in {j \in 1..Len(tx.input) : has_prevout(tx.input[j])}}

\* the rows index_blocks builds for one block
index_block_rows(st, b) ==
    LET txdata == BlockTxdata(b)
    IN UNION {index_transaction(st, txdata[i], Height(b)) : i \in 1..Len(txdata)}
       \cup {BlockRow_new_done(b)}

index_blocks(st, blocks) == UNION {index_block_rows(st, b) : b \in Range(blocks)}

\* ------------------------------------------------- queries used by tweak
\* the block of the first C row of the transaction, on the best chain or not
tx_confirming_block_any(st, txid) ==
    LET confs == {r \in View(st, "txstore") : r.k[1] = "C" /\ r.k[2] = txid}
    IN IF confs = {} THEN None
       ELSE LET bh == (CHOOSE r \in confs :
                          \A q \in confs : Len(r.k[3]) <= Len(q.k[3])).k[3]
            IN Some([height |-> Height(bh), hash |-> bh])

\* the block of a C row that is in added_blockhashes, in the header list or
\* not yet
tx_confirming_block_added(st, txid) ==
    LET confs == {r \in View(st, "txstore") : r.k[1] = "C" /\ r.k[2] = txid}
        added == {r \in confs : r.k[3] \in st.added_blockhashes}
    IN IF added = {} THEN None
       ELSE LET bh == (CHOOSE r \in added :
                          \A q \in added : Len(r.k[3]) >= Len(q.k[3])).k[3]
            IN Some([height |-> Height(bh), hash |-> bh])

\* ChainQuery::tx_confirming_block: the C rows of the txid, the first whose
\* block is in the header list.  A valid chain confirms a transaction at
\* most once, so at most one row qualifies and the scan order is immaterial.
tx_confirming_block(st, txid) ==
    LET confs == {r \in View(st, "txstore") : r.k[1] = "C" /\ r.k[2] = txid}
        best == {r \in confs : InList(st.indexed_headers, r.k[3])}
    IN IF best = {} THEN None
       ELSE LET bh == (CHOOSE r \in best : TRUE).k[3]
            IN Some(BlockId(header_by_blockhash(st.indexed_headers, bh)[1]))

\* the first S row of the outpoint, its spender confirmed or not
lookup_spend_first_edge(st, outpoint) ==
    LET edges == {r \in View(st, "history") :
                     /\ r.k[1] = "S"
                     /\ r.k[2] = outpoint.txid
                     /\ r.k[3] = U16(outpoint.vout)}
    IN IF edges = {} THEN None
       ELSE LET e == CHOOSE r \in edges : \A q \in edges : r.k[4] <= q.k[4]
            IN Some([txid |-> e.k[4], vin |-> e.k[5],
                     confirmed |-> tx_confirming_block(st, e.k[4])])

\* ChainQuery::lookup_spend: the S rows of the outpoint, the first whose
\* spending transaction is confirmed on the best chain
lookup_spend(st, outpoint) ==
    LET edges == {r \in View(st, "history") :
                     /\ r.k[1] = "S"
                     /\ r.k[2] = outpoint.txid
                     /\ r.k[3] = U16(outpoint.vout)}
        live == {r \in edges : tx_confirming_block(st, r.k[4]) # None}
    IN IF live = {} THEN None
       ELSE LET e == CHOOSE r \in live : \A q \in live : r.k[4] <= q.k[4]
            IN Some([txid |-> e.k[4], vin |-> e.k[5],
                     confirmed |-> tx_confirming_block(st, e.k[4])])

\* ----------------------------------------------------------- stage tweak
TweakTxRow(blockheight, txid, tweak_data) == Row(<<"K", blockheight, txid>>, tweak_data)

\* the outputs of tweak_transaction without the test against sp_min_dust
output_pubkeys_any_value(st, tx) ==
    LET ok == {j \in 1..Len(tx.output) :
                  is_spendable(tx.output[j]) /\ tx.output[j].p2tr}
    IN {[vout |-> i - 1, amount |-> tx.output[i].value,
         script_pubkey |-> tx.output[i].script_pubkey,
         spending_input |-> lookup_spend(st, [txid |-> tx.txid, vout |-> i - 1])] :
           i \in ok}

\* the eligible outputs of tweak_transaction
output_pubkeys(st, tx) ==
    LET ok == {j \in 1..Len(tx.output) :
                  /\ is_spendable(tx.output[j])
                  /\ tx.output[j].p2tr
                  /\ tx.output[j].value >= sp_min_dust}
    IN {[vout |-> i - 1, amount |-> tx.output[i].value,
         script_pubkey |-> tx.output[i].script_pubkey,
         spending_input |-> lookup_spend(st, [txid |-> tx.txid, vout |-> i - 1])] :
           i \in ok}

\* the previous transactions tweak_transaction asks the node for
\* (daemon.gettransaction_raw, line 538): none when no output is eligible
prev_txids(st, tx) ==
    IF output_pubkeys(st, tx) = {} THEN {}
    ELSE {tx.input[j].previous_output.txid : j \in 1..Len(tx.input)}

\* the inputs whose public key get_pubkey_from_input recovers: those whose
\* previous transaction the node returned (fetched = the txids answered Ok)
input_pubkeys(tx, fetched) ==
    {j \in 1..Len(tx.input) :
        tx.input[j].previous_output.txid \in fetched /\ tx.input[j].pubkey}

tweak_transaction(st, blockheight, tx, fetched) ==
    IF output_pubkeys(st, tx) = {} \/ input_pubkeys(tx, fetched) = {} THEN {}
    ELSE {TweakTxRow(blockheight, tx.txid,
                     [tweak |-> <<"tweak", tx.txid>>,
                      vout_data |-> output_pubkeys(st, tx)])}

\* the rows Indexer::tweak writes for one block
tweak_block_rows(st, b, fetched) ==
    LET txdata == BlockTxdata(b)
        krows == UNION {tweak_transaction(st, Height(b), txdata[i], fetched) :
                           i \in 1..Len(txdata)}
    IN krows \cup {BlockRow_new_tweaks(b, {r.v.tweak : r \in krows}),
                   BlockRow_new_done(b)}

\* ------------------------------------------------------------ work lists
\* update() skipping the add stage: nothing to add
headers_to_add_none(st, new_headers) == << >>

\* Indexer::headers_to_add
headers_to_add(st, new_headers) ==
    SeqFilter(new_headers, Range(new_headers) \ st.added_blockhashes)

\* usize subtraction a - b: with overflow checks an underflow panics,
\* without them it wraps
UsizeSub(a, b) == [overflow |-> a < b, value |-> (a - b) % UsizeMod]

\* Indexer::get_headers_to_use: [panic, from, headers]
get_headers_to_use(st, lookup_len, new_headers, start_height) ==
    LET all_indexed_headers == st.indexed_headers
        total == UsizeSub(Len(all_indexed_headers), start_height)
        count_total_indexed == total.value
        left == UsizeSub(lookup_len, count_total_indexed)
        count_left_to_index == left.value
    IN IF overflow_checks /\ total.overflow
       THEN [panic |-> TRUE, from |-> st.from, headers |-> << >>]
       ELSE IF count_total_indexed > lookup_len
       THEN IF overflow_checks /\ left.overflow
            THEN [panic |-> TRUE, from |-> st.from, headers |-> << >>]
            ELSE [panic |-> FALSE,
                  from |-> IF /\ st.from = "BlkFiles"
                              /\ count_left_to_index < Len(all_indexed_headers) \div 2
                           THEN "BlkFilesReverse" ELSE st.from,
                  headers |-> all_indexed_headers]
       ELSE [panic |-> FALSE, from |-> st.from, headers |-> new_headers]

\* ChainQuery::indexed_blockhashes / tweaked_blockhashes
indexed_blockhashes(st) == load_blockhashes(View(st, "history"))
tweaked_blockhashes(st) == load_blockhashes(View(st, "tweak"))

\* headers_to_index without the filter on the D markers of history
headers_to_index_unfiltered(st, new_headers) ==
    get_headers_to_use(st, Cardinality(indexed_blockhashes(st)), new_headers, 0)

\* Indexer::headers_to_index: [panic, from, headers]
headers_to_index(st, new_headers) ==
    LET done == indexed_blockhashes(st)
        use == get_headers_to_use(st, Cardinality(done), new_headers, 0)
    IN [use EXCEPT !.headers = SeqFilter(@, {e \in Range(@) : e \notin done})]

\* headers_to_tweak without the test of the height against sp_begin_height
headers_to_tweak_any_height(st, new_headers) ==
    LET done == tweaked_blockhashes(st)
        use == get_headers_to_use(st, Cardinality(done), new_headers, sp_begin_height)
    IN [use EXCEPT !.headers = SeqFilter(@, {e \in Range(@) : e \notin done})]

\* Indexer::headers_to_tweak: [panic, from, headers]
headers_to_tweak(st, new_headers) ==
    LET done == tweaked_blockhashes(st)
        start_height == sp_begin_height
        use == get_headers_to_use(st, Cardinality(done), new_headers, start_height)
    IN [use EXCEPT !.headers =
            SeqFilter(@, {e \in Range(@) : /\ e \notin done
                                           /\ Height(e) >= start_height})]

\* start_auto_compactions running the full compaction whether or not the
\* sentinel F is there
start_auto_compactions_ungated(st, ns) ==
    [DbPutSync(st, ns, <<"F">>, << >>) EXCEPT
         !.full_compactions[ns] = @ + 1, !.auto_compaction[ns] = TRUE]

\* Indexer::start_auto_compactions(db): the one-shot full compaction, gated
\* by the sentinel F
start_auto_compactions(st, ns) ==
    LET done == IF DbGet(st, ns, <<"F">>) # None THEN st
                ELSE [DbPutSync(st, ns, <<"F">>, << >>) EXCEPT
                          !.full_compactions[ns] = @ + 1]
    IN [done EXCEPT !.auto_compaction[ns] = TRUE]

\* ------------------------------------------------------- Indexer::update
\* Each step of update() maps the process state to the next one; a fatal
\* assertion leaves the process at "panicked".
Panicked(st) == [st EXCEPT !.pc = "panicked"]

\* lines 340-345: tip, headers_not_indexed, to_add
update_start(st, best) ==
    LET hni == get_new_headers(st.indexed_headers, best)
        to_add == headers_to_add(st, hni)
    IN [st EXCEPT !.tip = best,
                  !.headers_not_indexed = hni,
                  !.work = to_add,
                  !.pc = IF to_add = << >> THEN "to_index" ELSE "add"]

\* add with the D markers written as a batch of their own, ahead of the
\* batch of the data rows
add_markers_first(st, n) ==
    LET blocks == SubSeq(st.work, 1, n)
        rows == add_blocks(blocks)
        markers == {r \in rows : r.k[1] = "D"}
        m == DbWrite(st, "txstore", markers, st.flush)
        w == DbWrite(m, "txstore", rows \ markers, st.flush)
    IN [w EXCEPT !.added_blockhashes = @ \cup Range(blocks),
                 !.work = SubSeq(st.work, n + 1, Len(st.work)),
                 !.pc = IF n = Len(st.work) THEN "add_compact" ELSE "add"]

\* Indexer::add on a batch of the fetcher: the first n headers of the list
add(st, n) ==
    LET blocks == SubSeq(st.work, 1, n)
        w == DbWrite(st, "txstore", add_blocks(blocks), st.flush)
    IN [w EXCEPT !.added_blockhashes = @ \cup Range(blocks),
                 !.work = SubSeq(st.work, n + 1, Len(st.work)),
                 !.pc = IF n = Len(st.work) THEN "add_compact" ELSE "add"]

\* line 352, then line 355
add_compact(st) == [start_auto_compactions(st, "txstore") EXCEPT !.pc = "to_index"]

index_start(st) ==
    LET to_index == headers_to_index(st, st.headers_not_indexed)
    IN IF to_index.panic THEN Panicked(st)
       ELSE [st EXCEPT !.from = to_index.from,
                       !.work = to_index.headers,
                       !.pc = IF to_index.headers = << >> THEN "to_tweak" ELSE "index"]

\* Indexer::index on a batch of the fetcher
index(st, n) ==
    LET blocks == SubSeq(st.work, 1, n)
    IN IF \/ lookup_txos_missing(st, get_previous_txos(blocks))
          \/ \E b \in Range(blocks) : b \notin st.added_blockhashes
       THEN Panicked(st)
       ELSE LET w == DbWrite(st, "history", index_blocks(st, blocks), st.flush)
            IN [w EXCEPT !.work = SubSeq(st.work, n + 1, Len(st.work)),
                         !.pc = IF n = Len(st.work) THEN "index_compact" ELSE "index"]

\* line 363, then line 366
index_compact(st) == [start_auto_compactions(st, "history") EXCEPT !.pc = "to_tweak"]

tweak_start(st) ==
    LET to_tweak == headers_to_tweak(st, st.headers_not_indexed)
    IN IF to_tweak.panic THEN Panicked(st)
       ELSE [st EXCEPT !.from = to_tweak.from,
                       !.work = to_tweak.headers,
                       !.pc = IF to_tweak.headers = << >> THEN "flush" ELSE "tweak"]

\* Indexer::tweak, the closure of the parallel map on the i-th block of the
\* batch: its rows are written and flushed
tweak(st, i, fetched) ==
    LET b == st.work[i]
        w == DbWrite(st, "tweak", tweak_block_rows(st, b, fetched), st.flush)
        f == DbFlush(w, "tweak")
    IN [f EXCEPT !.work = SubSeq(st.work, 1, i - 1) \o SubSeq(st.work, i + 1, Len(st.work)),
                 !.pc = IF Len(st.work) = 1 THEN "tweak_compact" ELSE "tweak"]

\* line 374
tweak_compact(st) == [start_auto_compactions(st, "tweak") EXCEPT !.pc = "flush"]

\* update without the flush of lines 377-382
update_flush_skipped(st) == [st EXCEPT !.flush = "Enable", !.pc = "put_tip"]

\* update flushing txstore alone
update_flush_txstore_only(st) ==
    IF st.flush = "Disable"
    THEN [DbFlush(st, "txstore") EXCEPT !.flush = "Enable", !.pc = "put_tip"]
    ELSE [st EXCEPT !.pc = "put_tip"]

\* lines 377-382
update_flush(st) ==
    IF st.flush = "Disable"
    THEN [DbFlush(DbFlush(st, "txstore"), "history") EXCEPT
              !.flush = "Enable", !.pc = "put_tip"]
    ELSE [st EXCEPT !.pc = "put_tip"]

\* t written with the first of the new headers instead of the tip
update_put_tip_first(st) ==
    LET h == IF st.headers_not_indexed = << >> THEN st.tip ELSE st.headers_not_indexed[1]
    IN [DbPutSync(st, "txstore", <<"t">>, h) EXCEPT !.pc = "apply"]

\* t written into the write buffer instead of put_sync
update_put_tip_buffered(st) ==
    [DbWrite(st, "txstore", {Row(<<"t">>, st.tip)}, "Disable") EXCEPT !.pc = "apply"]

\* line 386: the commit point
update_put_tip(st) ==
    [DbPutSync(st, "txstore", <<"t">>, st.tip) EXCEPT !.pc = "apply"]

\* apply that appends the new headers without cutting the list at the
\* height of the first of them
update_apply_uncut(st) ==
    LET headers == st.indexed_headers \o st.headers_not_indexed
    IN IF st.tip # ListTip(headers) THEN Panicked(st)
       ELSE [st EXCEPT !.indexed_headers = headers,
                       !.from = IF @ = "BlkFiles" THEN "Bitcoind" ELSE @,
                       !.pc = "idle",
                       !.tip = NullHash,
                       !.headers_not_indexed = << >>,
                       !.work = << >>]

\* lines 388-400; the locals of update() go out of scope
update_apply(st) ==
    LET headers == HeaderListApply(st.indexed_headers, st.headers_not_indexed)
    IN IF st.tip # ListTip(headers) THEN Panicked(st)
       ELSE [st EXCEPT !.indexed_headers = headers,
                       !.from = IF @ = "BlkFiles" THEN "Bitcoind" ELSE @,
                       !.pc = "idle",
                       !.tip = NullHash,
                       !.headers_not_indexed = << >>,
                       !.work = << >>]

\* the previous transactions the tweak of block b asks the node for
block_prev_txids(st, b) ==
    UNION {prev_txids(st, BlockTxdata(b)[i]) : i \in 1..Len(BlockTxdata(b))}

\* update() from its first line to its return (or panic), every stage
\* taking its work list as one batch and the node answering every call
RECURSIVE run_update(_)
run_update(st) ==
    IF st.pc = "add" THEN run_update(add(st, Len(st.work)))
    ELSE IF st.pc = "add_compact" THEN run_update(add_compact(st))
    ELSE IF st.pc = "to_index" THEN run_update(index_start(st))
    ELSE IF st.pc = "index" THEN run_update(index(st, Len(st.work)))
    ELSE IF st.pc = "index_compact" THEN run_update(index_compact(st))
    ELSE IF st.pc = "to_tweak" THEN run_update(tweak_start(st))
    ELSE IF st.pc = "tweak" THEN run_update(tweak(st, 1, block_prev_txids(st, st.work[1])))
    ELSE IF st.pc = "tweak_compact" THEN run_update(tweak_compact(st))
    ELSE IF st.pc = "flush" THEN run_update(update_flush(st))
    ELSE IF st.pc = "put_tip" THEN run_update(update_put_tip(st))
    ELSE IF st.pc = "apply" THEN run_update(update_apply(st))
    ELSE st

update(st, best) == run_update(update_start(st, best))

\* ------------------------------------------------------- crash and restart
\* Store::open and Indexer::open on the durable rows d
open(d) ==
    LET t == {r \in d["txstore"] : r.k = <<"t">>}
        hl == IF t = {} THEN [ok |-> TRUE, list |-> << >>]
              ELSE HeaderListNew(load_blockheaders(d["txstore"]),
                                 (CHOOSE r \in t : TRUE).v)
    IN [disk |-> d,
        mem |-> [ns \in Namespaces |-> << >>],
        added_blockhashes |-> load_blockhashes(d["txstore"]),
        indexed_headers |-> hl.list,
        flush |-> "Disable",
        from |-> InitialFetchFrom,
        pc |-> IF hl.ok THEN "idle" ELSE "panicked",
        tip |-> NullHash,
        headers_not_indexed |-> << >>,
        work |-> << >>,
        full_compactions |-> [ns \in Namespaces |-> 0],
        auto_compaction |-> [ns \in Namespaces |-> FALSE],
        query |-> None]

\* what is on disk after the process died: of the unflushed batches of a
\* namespace the first k had been written out by the store in the background
Durable(st, kx, kh) ==
    [st.disk EXCEPT
        !["txstore"] = ApplyBatches(@, SubSeq(st.mem["txstore"], 1, kx)),
        !["history"] = ApplyBatches(@, SubSeq(st.mem["history"], 1, kh))]

\* ------------------------------------------------------------------ Init
Init ==
    /\ node = Genesis
    /\ reorgs = 0
    /\ crashes = 0
    /\ overflow_checks \in BOOLEAN
    /\ rpc_failed = FALSE
    /\ Is(open([ns \in Namespaces |-> {}]))

\* ------------------------------------------------------------- the node
\* The node's chain is read by update() only when it starts (lines 341-342),
\* so a change of the chain during an update is observed exactly as a change
\* before the next one: the node moves between updates.
Proc == <<disk, mem, added_blockhashes, indexed_headers, flush, from, pc, tip,
          headers_not_indexed, work, full_compactions, auto_compaction, query>>

\* the node's best chain grows by one block
NodeExtend(maxh) ==
    /\ pc = "idle"
    /\ \E x \in Menu :
          /\ Append(node, x) \in BlockHashes(maxh)
          /\ node' = Append(node, x)
    /\ UNCHANGED <<reorgs, crashes, overflow_checks, rpc_failed, Proc>>

\* a suffix of the node's best chain is replaced by an alternative that is
\* not shorter
NodeReorg(maxh) ==
    /\ pc = "idle"
    /\ reorgs < MaxReorgs
    /\ \E c \in BlockHashes(maxh) :
          /\ Len(c) >= Len(node)
          /\ ~IsPrefix(node, c)
          /\ node' = c
    /\ reorgs' = reorgs + 1
    /\ UNCHANGED <<crashes, overflow_checks, rpc_failed, Proc>>

\* ------------------------------------------------- the steps of update()
StepRpc(st, failed) ==
    /\ Becomes(st)
    /\ rpc_failed' = failed
    /\ UNCHANGED <<node, reorgs, crashes, overflow_checks>>

Step(st) == StepRpc(st, rpc_failed)

\* update() with the node answering lines 340-342
UpdateStart == pc = "idle" /\ StepRpc(update_start(Cur, node), FALSE)

\* update() with reconnect, getbestblockhash or get_new_headers failing:
\* the `?` of lines 340-342 returns the Err before anything is touched
UpdateRpcError == pc = "idle" /\ StepRpc(Cur, TRUE)

AddBatch == pc = "add" /\ \E n \in 1..Len(work) : Step(add(Cur, n))
AddCompact == pc = "add_compact" /\ Step(add_compact(Cur))
IndexStart == pc = "to_index" /\ Step(index_start(Cur))
IndexBatch == pc = "index" /\ \E n \in 1..Len(work) : Step(index(Cur, n))
IndexCompact == pc = "index_compact" /\ Step(index_compact(Cur))
TweakStart == pc = "to_tweak" /\ Step(tweak_start(Cur))
\* one block of the tweak stage; the node answers the fetches of the previous
\* transactions in `fetched` and fails the others
TweakBlock ==
    /\ pc = "tweak"
    /\ \E i \in 1..Len(work) :
          \E fetched \in SUBSET block_prev_txids(Cur, work[i]) :
             StepRpc(tweak(Cur, i, fetched),
                     rpc_failed \/ fetched # block_prev_txids(Cur, work[i]))
TweakCompact == pc = "tweak_compact" /\ Step(tweak_compact(Cur))
UpdateFlush == pc = "flush" /\ Step(update_flush(Cur))
UpdatePutTip == pc = "put_tip" /\ Step(update_put_tip(Cur))
UpdateApply == pc = "apply" /\ Step(update_apply(Cur))

\* The process dies (a crash at any point, or the exit after a panic) and is
\* started again.
Restart ==
    /\ pc = "panicked" \/ crashes < MaxCrashes
    /\ crashes' = IF pc = "panicked" THEN crashes ELSE crashes + 1
    /\ \E kx \in 0..Len(mem["txstore"]), kh \in 0..Len(mem["history"]) :
          Becomes([open(Durable(Cur, kx, kh)) EXCEPT
                       !.full_compactions = full_compactions])
    /\ rpc_failed' = FALSE
    /\ UNCHANGED <<node, reorgs, overflow_checks>>

Next ==
    \/ NodeExtend(MaxHeight)
    \/ NodeReorg(MaxHeight)
    \/ UpdateStart
    \/ UpdateRpcError
    \/ AddBatch
    \/ AddCompact
    \/ IndexStart
    \/ IndexBatch
    \/ IndexCompact
    \/ TweakStart
    \/ TweakBlock
    \/ TweakCompact
    \/ UpdateFlush
    \/ UpdatePutTip
    \/ UpdateApply
    \/ Restart

Spec == Init /\ [][Next]_vars

\* =================================================================
\* ChainQuery: history scans, stats and utxo with their caches
\* =================================================================
Scripts == {"A"}

\* byte order of two keys, element by element from the i-th on
RECURSIVE KeyLessFrom(_, _, _)
KeyLessFrom(a, b, i) ==
    IF i > Len(a) THEN i <= Len(b)
    ELSE IF i > Len(b) THEN FALSE
    ELSE IF a[i] = b[i] THEN KeyLessFrom(a, b, i + 1)
    ELSE a[i] < b[i]

\* the keys of a scan, in the store's iteration order
RECURSIVE ScanOrder(_)
ScanOrder(keys) ==
    IF keys = {} THEN << >>
    ELSE LET first == CHOOSE k \in keys : \A o \in keys \ {k} : KeyLessFrom(k, o, 3)
         IN << first >> \o ScanOrder(keys \ {first})

\* The serialized form of a u32: HeightBytes bytes, each of ByteMod values
\* (the model scales the byte to one bit so that the heights it reaches span
\* several bytes).
ByteMod == 2
HeightBytes == 3

\* the bytes of a u32, least significant first
RECURSIVE serialize_little_u32(_, _)
serialize_little_u32(n, width) ==
    IF width = 0 THEN << >>
    ELSE << n % ByteMod >> \o serialize_little_u32(n \div ByteMod, width - 1)

\* bincode::serialize_big of a u32: most significant byte first
RECURSIVE serialize_big_u32(_, _)
serialize_big_u32(n, width) ==
    IF width = 0 THEN << >>
    ELSE Append(serialize_big_u32(n \div ByteMod, width - 1), n % ByteMod)

\* bincode::deserialize_big of a u32
RECURSIVE deserialize_big_u32(_)
deserialize_big_u32(bytes) ==
    IF bytes = << >> THEN 0
    ELSE deserialize_big_u32(SubSeq(bytes, 1, Len(bytes) - 1)) * ByteMod
            + bytes[Len(bytes)]

\* TxHistoryRow::into_row / from_row: code, hash, confirmed_height in
\* big-endian bytes, txinfo
TxHistoryRow_into_row(k) ==
    << k[1], k[2] >> \o serialize_big_u32(k[3], HeightBytes) \o SubSeq(k, 4, Len(k))
TxHistoryRow_from_row(bytes) ==
    << bytes[1], bytes[2], deserialize_big_u32(SubSeq(bytes, 3, 2 + HeightBytes)) >>
        \o SubSeq(bytes, 3 + HeightBytes, Len(bytes))

\* TxHistoryRow::filter / prefix_height
TxHistoryRow_filter(code, hash) == << code, hash >>
TxHistoryRow_prefix_height(code, hash, height) ==
    << code, hash >> \o serialize_big_u32(height, HeightBytes)

\* DB::iter_scan_from(prefix, start_at) on the serialized keys: the keys that
\* start with prefix and are not below start_at, in byte order
iter_scan_from(keys, prefix, start_at) ==
    ScanOrder({b \in keys : /\ Len(b) >= Len(prefix)
                            /\ SubSeq(b, 1, Len(prefix)) = prefix
                            /\ ~KeyLessFrom(b, start_at, Len(prefix) + 1)})

\* ChainQuery::history_iter_scan(code, hash, start_height), the rows read
\* back with TxHistoryRow::from_row
history_iter_scan(st, code, hash, start_height) ==
    LET stored == {TxHistoryRow_into_row(k) :
                      k \in {q \in Keys(View(st, "history")) : q[1] = code}}
        scan == iter_scan_from(stored, TxHistoryRow_filter(code, hash),
                               TxHistoryRow_prefix_height(code, hash, start_height))
    IN [i \in 1..Len(scan) |-> TxHistoryRow_from_row(scan[i])]

\* TxHistoryRow::get_txid / get_funded_outpoint, and the value of the info
get_txid(k) == k[5]
get_funded_outpoint(k) ==
    IF k[4] = 0 THEN [txid |-> k[5], vout |-> k[6]]
    ELSE [txid |-> k[7], vout |-> k[8]]
info_value(k) == k[Len(k)]

\* the height a block hash had when it was indexed, on the best chain or not
height_by_hash_orphaned(st, hash) == Some(Height(hash))

\* ChainQuery::height_by_hash / blockid_by_height
height_by_hash(st, hash) ==
    LET h == header_by_blockhash(st.indexed_headers, hash)
    IN IF h = None THEN None ELSE Some(h[1].height)

blockid_by_height(st, height) ==
    LET h == header_by_height(st.indexed_headers, height)
    IN IF h = None THEN None ELSE Some(BlockId(h[1]))

\* ChainQuery::blockid_by_hash
blockid_by_hash(st, hash) ==
    LET h == header_by_blockhash(st.indexed_headers, hash)
    IN IF h = None THEN None ELSE Some(BlockId(h[1]))

ScriptStats_default ==
    [tx_count |-> 0, funded_txo_count |-> 0, funded_txo_sum |-> 0,
     spent_txo_count |-> 0, spent_txo_sum |-> 0]

\* the loop of stats_delta without the filter on the confirmed height of
\* line 955
RECURSIVE stats_fold_any_height(_, _, _)
stats_fold_any_height(st, rows, acc) ==
    IF rows = << >> THEN acc
    ELSE LET history == rows[1]
             conf == tx_confirming_block(st, get_txid(history))
         IN IF conf = None
            THEN stats_fold_any_height(st, Tail(rows), acc)
            ELSE LET blockid == conf[1]
                     seen == IF acc.lastblock # Some(blockid.hash) THEN {}
                             ELSE acc.seen_txids
                     s0 == IF get_txid(history) \in seen THEN acc.stats
                           ELSE [acc.stats EXCEPT !.tx_count = @ + 1]
                     s1 == IF history[4] = 0
                           THEN [s0 EXCEPT !.funded_txo_count = @ + 1,
                                           !.funded_txo_sum = @ + info_value(history)]
                           ELSE [s0 EXCEPT !.spent_txo_count = @ + 1,
                                           !.spent_txo_sum = @ + info_value(history)]
                 IN stats_fold_any_height(st, Tail(rows),
                               [stats |-> s1,
                                seen_txids |-> seen \cup {get_txid(history)},
                                lastblock |-> Some(blockid.hash)])

\* the loop body of stats_delta on one history key
RECURSIVE stats_fold(_, _, _)
stats_fold(st, rows, acc) ==
    IF rows = << >> THEN acc
    ELSE LET history == rows[1]
             conf == tx_confirming_block(st, get_txid(history))
         IN IF conf = None \/ conf[1].height # history[3]
            THEN stats_fold(st, Tail(rows), acc)
            ELSE LET blockid == conf[1]
                     seen == IF acc.lastblock # Some(blockid.hash) THEN {}
                             ELSE acc.seen_txids
                     s0 == IF get_txid(history) \in seen THEN acc.stats
                           ELSE [acc.stats EXCEPT !.tx_count = @ + 1]
                     s1 == IF history[4] = 0
                           THEN [s0 EXCEPT !.funded_txo_count = @ + 1,
                                           !.funded_txo_sum = @ + info_value(history)]
                           ELSE [s0 EXCEPT !.spent_txo_count = @ + 1,
                                           !.spent_txo_sum = @ + info_value(history)]
                 IN stats_fold(st, Tail(rows),
                               [stats |-> s1,
                                seen_txids |-> seen \cup {get_txid(history)},
                                lastblock |-> Some(blockid.hash)])

\* ChainQuery::stats_delta: [stats, lastblock]
stats_delta(st, scripthash, init_stats, start_height) ==
    LET r == stats_fold(st, history_iter_scan(st, "H", scripthash, start_height),
                        [stats |-> init_stats, seen_txids |-> {}, lastblock |-> None])
    IN [stats |-> r.stats, lastblock |-> r.lastblock]

\* StatsCacheRow
StatsCacheRow_key(scripthash) == <<"A", scripthash>>
StatsCacheRow(scripthash, stats, blockhash) ==
    Row(StatsCacheRow_key(scripthash), [stats |-> stats, blockhash |-> blockhash])

\* stats resuming at the cached height from the default stats, the cached
\* stats dropped
stats_cached_dropped(st, scripthash) ==
    LET c == DbGet(st, "cache", StatsCacheRow_key(scripthash))
        height == IF c = None THEN None ELSE height_by_hash(st, c[1].blockhash)
        d == IF height = None
             THEN stats_delta(st, scripthash, ScriptStats_default, 0)
             ELSE stats_delta(st, scripthash, ScriptStats_default, height[1] + 1)
        save == /\ d.lastblock # None
                /\ d.stats.funded_txo_count + d.stats.spent_txo_count
                      > MIN_HISTORY_ITEMS_TO_CACHE
    IN [stats |-> d.stats,
        st |-> IF save
               THEN DbWrite(st, "cache",
                            {[k |-> <<"A", scripthash>>,
                              v |-> [stats |-> d.stats, blockhash |-> d.lastblock[1]]]},
                            "Enable")
               ELSE st]

\* ChainQuery::stats: [stats, st], st the store with the cache row written
stats(st, scripthash) ==
    LET c == DbGet(st, "cache", StatsCacheRow_key(scripthash))
        height == IF c = None THEN None ELSE height_by_hash(st, c[1].blockhash)
        d == IF height = None
             THEN stats_delta(st, scripthash, ScriptStats_default, 0)
             ELSE stats_delta(st, scripthash, c[1].stats, height[1] + 1)
        newstats == d.stats
        save == /\ d.lastblock # None
                /\ newstats.funded_txo_count + newstats.spent_txo_count
                      > MIN_HISTORY_ITEMS_TO_CACHE
    IN [stats |-> newstats,
        st |-> IF save
               THEN DbWrite(st, "cache",
                            {StatsCacheRow(scripthash, newstats, d.lastblock[1])}, "Enable")
               ELSE st]

\* UtxoMap: OutPoint -> (BlockId, Value), as a set of entries with distinct
\* outpoints
UtxoHas(utxos, outpoint) == {u \in utxos : u.outpoint = outpoint}
UtxoInsert(utxos, outpoint, blockid, value) ==
    (utxos \ UtxoHas(utxos, outpoint))
        \cup {[outpoint |-> outpoint, blockid |-> blockid, value |-> value]}
UtxoRemove(utxos, outpoint) == utxos \ UtxoHas(utxos, outpoint)

\* the loop body of utxo_delta on one history key; the first error ends it
RECURSIVE utxo_fold(_, _, _, _)
utxo_fold(st, rows, limit, acc) ==
    IF rows = << >> \/ acc.err # None THEN acc
    ELSE LET history == rows[1]
             conf == tx_confirming_block(st, get_txid(history))
         IN IF conf = None THEN utxo_fold(st, Tail(rows), limit, acc)
            ELSE LET blockid == conf[1]
                     utxos == IF history[4] = 0
                              THEN UtxoInsert(acc.utxos, get_funded_outpoint(history),
                                              blockid, info_value(history))
                              ELSE UtxoRemove(acc.utxos, get_funded_outpoint(history))
                 IN utxo_fold(st, Tail(rows), limit,
                              [utxos |-> utxos,
                               lastblock |-> Some(blockid.hash),
                               processed_items |-> acc.processed_items + 1,
                               err |-> IF Cardinality(utxos) > limit
                                       THEN Some("TooPopular") ELSE None])

\* ChainQuery::utxo_delta: [utxos, lastblock, processed_items, err]
utxo_delta(st, scripthash, init_utxos, start_height, limit) ==
    utxo_fold(st, history_iter_scan(st, "H", scripthash, start_height), limit,
              [utxos |-> init_utxos, lastblock |-> None, processed_items |-> 0,
               err |-> None])

\* make_utxo_cache: (txid, vout) -> (block height, value)
make_utxo_cache(utxos) ==
    {[txid |-> u.outpoint.txid, vout |-> u.outpoint.vout,
      height |-> u.blockid.height, value |-> u.value] : u \in utxos}

\* from_utxo_cache: the BlockId is read back from the header list by height;
\* a height without header is fatal
from_utxo_cache(utxos_cache, st) ==
    IF \E c \in utxos_cache : blockid_by_height(st, c.height) = None
    THEN [ok |-> FALSE, utxos |-> {}]
    ELSE [ok |-> TRUE,
          utxos |-> {[outpoint |-> [txid |-> c.txid, vout |-> c.vout],
                      blockid |-> blockid_by_height(st, c.height)[1],
                      value |-> c.value] : c \in utxos_cache}]

\* UtxoCacheRow
UtxoCacheRow_key(scripthash) == <<"U", scripthash>>
UtxoCacheRow(scripthash, utxos, blockhash) ==
    Row(UtxoCacheRow_key(scripthash),
        [utxos |-> make_utxo_cache(utxos), blockhash |-> blockhash])

\* ChainQuery::utxo: [err, utxos, st]; err is None for Ok, "TooPopular" for
\* the error result and "panic" for the failed expect of from_utxo_cache
utxo(st, scripthash, limit) ==
    LET c == DbGet(st, "cache", UtxoCacheRow_key(scripthash))
        height == IF c = None THEN None ELSE height_by_hash(st, c[1].blockhash)
        had_cache == height # None
        old == IF had_cache THEN from_utxo_cache(c[1].utxos, st)
               ELSE [ok |-> TRUE, utxos |-> {}]
        d == IF had_cache
             THEN utxo_delta(st, scripthash, old.utxos, height[1] + 1, limit)
             ELSE utxo_delta(st, scripthash, {}, 0, limit)
        save == /\ d.lastblock # None
                /\ had_cache \/ d.processed_items > MIN_HISTORY_ITEMS_TO_CACHE
    IN IF ~old.ok THEN [err |-> Some("panic"), utxos |-> {}, st |-> st]
       ELSE IF d.err # None THEN [err |-> d.err, utxos |-> {}, st |-> st]
       ELSE [err |-> None,
             utxos |-> d.utxos,
             st |-> IF save
                    THEN DbWrite(st, "cache",
                                 {UtxoCacheRow(scripthash, d.utxos, d.lastblock[1])},
                                 "Enable")
                    ELSE st]

\* ChainQuery::history_iter_scan_reverse(code, hash)
RECURSIVE Reverse(_)
Reverse(s) == IF s = << >> THEN << >> ELSE Append(Reverse(Tail(s)), s[1])

history_iter_scan_reverse(st, code, hash) ==
    Reverse(ScanOrder({k \in Keys(View(st, "history")) : k[1] = code /\ k[2] = hash}))

\* Itertools::unique: the first occurrence of every element, in order
RECURSIVE Unique(_, _)
Unique(s, seen) ==
    IF s = << >> THEN << >>
    ELSE IF s[1] \in seen THEN Unique(Tail(s), seen)
    ELSE << s[1] >> \o Unique(Tail(s), seen \cup {s[1]})

\* Iterator::skip_while(|txid| last_seen_txid != txid)
RECURSIVE SkipWhileNot(_, _)
SkipWhileNot(s, x) ==
    IF s = << >> \/ s[1] = x THEN s ELSE SkipWhileNot(Tail(s), x)

\* Iterator::take(limit)
Take(s, limit) == SubSeq(s, 1, IF limit < Len(s) THEN limit ELSE Len(s))

\* filter_map(|txid| tx_confirming_block(txid).map(|b| (txid, b)))
RECURSIVE Confirmed(_, _)
Confirmed(st, txids) ==
    IF txids = << >> THEN << >>
    ELSE LET b == tx_confirming_block(st, txids[1])
         IN (IF b = None THEN << >> ELSE << [txid |-> txids[1], blockid |-> b[1]] >>)
                \o Confirmed(st, Tail(txids))

\* history with an inclusive cursor: last_seen_txid itself is not skipped
history_inclusive(st, scripthash, last_seen_txid, limit) ==
    LET rows == history_iter_scan_reverse(st, "H", scripthash)
        txids == Unique([i \in 1..Len(rows) |-> get_txid(rows[i])], {})
        from_seen == IF last_seen_txid = None THEN txids
                     ELSE SkipWhileNot(txids, last_seen_txid[1])
    IN Take(Confirmed(st, from_seen), limit)

\* ChainQuery::history(scripthash, last_seen_txid, limit): the transactions
\* are named by their txid; last_seen_txid is None or Some(txid)
history(st, scripthash, last_seen_txid, limit) ==
    LET rows == history_iter_scan_reverse(st, "H", scripthash)
        txids == Unique([i \in 1..Len(rows) |-> get_txid(rows[i])], {})
        from_seen == IF last_seen_txid = None THEN txids
                     ELSE SkipWhileNot(txids, last_seen_txid[1])
        rest == IF last_seen_txid = None \/ from_seen = << >> THEN from_seen
                ELSE Tail(from_seen)
    IN Take(Confirmed(st, rest), limit)

\* ChainQuery::history_txids(scripthash, limit)
history_txids(st, scripthash, limit) ==
    LET rows == history_iter_scan(st, "H", scripthash, 0)
        txids == Unique([i \in 1..Len(rows) |-> get_txid(rows[i])], {})
    IN Take(Confirmed(st, txids), limit)

\* ------------------------------------------------ the query specification
\* update() runs to its end between two queries; release build; no crash.

InitQ ==
    /\ node = Genesis
    /\ reorgs = 0
    /\ crashes = 0
    /\ overflow_checks = FALSE
    /\ rpc_failed = FALSE
    /\ Is(open([ns \in Namespaces |-> {}]))

UpdateAll == pc = "idle" /\ Step(update(Cur, node))

Stats == pc = "idle" /\ \E sh \in Scripts : Step(stats(Cur, sh).st)

Utxo ==
    /\ pc = "idle"
    /\ \E sh \in Scripts, limit \in 1..MaxLimit : Step(utxo(Cur, sh, limit).st)

NextQ ==
    \/ NodeExtend(MaxHeightQ)
    \/ NodeReorg(MaxHeightQ)
    \/ UpdateAll
    \/ Stats
    \/ Utxo

SpecQ == InitQ /\ [][NextQ]_vars

\* =================================================================
\* Properties
\* =================================================================
\* the best chain ending at block h, genesis first (ground truth of the node)
BestChain(h) == [i \in 1..(Len(h) + 1) |-> SubSeq(h, 1, i - 1)]

HasDone(rows, b) == BlockRow_new_done(b) \in rows

\* the durable value of the tip sentinel t
DurableTip ==
    LET t == {r \in disk["txstore"] : r.k = <<"t">>}
    IN IF t = {} THEN None ELSE Some((CHOOSE r \in t : TRUE).v)

Pipeline == {"txstore", "history", "tweak"}

\* C1: whenever t holds bh, every block of the best chain up to bh has its
\* D marker in txstore and in history (durably), and so has every header of
\* the in-memory header list.
TipImpliesAddedIndexed ==
    /\ DurableTip # None =>
          \A b \in Range(BestChain(DurableTip[1])) :
              HasDone(disk["txstore"], b) /\ HasDone(disk["history"], b)
    /\ \A b \in Range(indexed_headers) :
          HasDone(disk["txstore"], b) /\ HasDone(disk["history"], b)

\* a restarted process whose tip sentinel names a block of height 2 reached
\* through a reorganisation
WitnessTipAfterCrash ==
    /\ crashes = 1
    /\ reorgs >= 1
    /\ pc = "idle"
    /\ DurableTip # None
    /\ Len(DurableTip[1]) = 2
    /\ indexed_headers = BestChain(DurableTip[1])

\* C2: whenever t holds bh after a successful update, every best-chain block
\* of height >= sp_begin_height up to bh has its D marker in the tweak
\* namespace.
TipImpliesTweaked ==
    (pc = "idle" /\ DurableTip # None) =>
        \A b \in Range(BestChain(DurableTip[1])) :
            Height(b) >= sp_begin_height => HasDone(disk["tweak"], b)

\* the data rows of block b in each namespace, from the chain data alone
PrevTxo(outpoint) == Tx(outpoint.txid).output[outpoint.vout + 1]

TxHistoryKeys(tx, height) ==
    {<<"H", tx.output[i].script_pubkey, height, 0, tx.txid, i - 1, tx.output[i].value>> :
        i \in 1..Len(tx.output)}
    \cup {<<"a", tx.output[i].script_pubkey>> : i \in 1..Len(tx.output)}
    \cup UNION {
        LET o == tx.input[i].previous_output
        IN {<<"H", PrevTxo(o).script_pubkey, height, 1, tx.txid, i - 1, o.txid, o.vout,
              PrevTxo(o).value>>,
            <<"S", o.txid, o.vout, tx.txid, i - 1>>} :
        i \in {j \in 1..Len(tx.input) : tx.input[j].previous_output # NullOutPoint}}

DataKeys(ns, b) ==
    LET txdata == BlockTxdata(b)
        txs == {txdata[i] : i \in 1..Len(txdata)}
    IN IF ns = "txstore"
       THEN {<<"B", b>>, <<"X", b>>, <<"M", b>>}
            \cup {<<"C", tx.txid, b>> : tx \in txs}
            \cup {<<"T", tx.txid>> : tx \in txs}
            \cup UNION {{<<"O", tx.txid, i - 1>> : i \in 1..Len(tx.output)} : tx \in txs}
       ELSE IF ns = "history"
       THEN UNION {TxHistoryKeys(tx, Height(b)) : tx \in txs}
       ELSE {<<"W", b>>}
            \cup {<<"K", Height(b), tx.txid>> :
                     tx \in {x \in txs : \E i \in 1..Len(x.input) : x.input[i].pubkey}}

\* C3: if D{bh} is present in a namespace, on disk or as read, every data
\* row the stage writes for bh is present there too.
MarkerImpliesData ==
    \A ns \in Pipeline :
        /\ \A b \in load_blockhashes(disk[ns]) : DataKeys(ns, b) \subseteq Keys(disk[ns])
        /\ \A b \in load_blockhashes(View(Cur, ns)) :
               DataKeys(ns, b) \subseteq Keys(View(Cur, ns))

\* after a crash the block that confirms T1 is marked done on disk in all
\* three namespaces
WitnessMarkedAfterCrash ==
    /\ crashes = 1
    /\ \E b \in load_blockhashes(disk["tweak"]) :
          /\ BlockTxdata(b) = << Tx(2) >>
          /\ HasDone(disk["txstore"], b)
          /\ HasDone(disk["history"], b)

\* C4: t names the tip of the running update only when no namespace holds
\* unflushed rows.
TipAfterFlush ==
    (pc \notin {"idle", "panicked"} /\ DurableTip = Some(tip)) =>
        \A ns \in Pipeline : mem[ns] = << >>

\* the first update of a process (flush mode Disable when it wrote) has
\* written t for new headers
WitnessTipWrittenFirstUpdate ==
    /\ pc = "apply"
    /\ from # "Bitcoind"
    /\ Len(headers_not_indexed) >= 2
    /\ DurableTip = Some(tip)

\* C5: an update that completes after a crash and restart ends with t and
\* the header list at the node's tip and with the D marker of every
\* best-chain block in txstore, history and (from sp_begin_height) tweak.
UpdateAfterCrashComplete ==
    [][(crashes > 0 /\ pc = "apply" /\ pc' = "idle") =>
          /\ DurableTip' = Some(tip)
          /\ indexed_headers' = BestChain(tip)
          /\ \A b \in Range(BestChain(tip)) :
                /\ HasDone(disk'["txstore"], b)
                /\ HasDone(disk'["history"], b)
                /\ Height(b) >= sp_begin_height => HasDone(disk'["tweak"], b)]_vars

\* C6: update() ends with header-list tip = tip = t: the assertion after
\* apply holds, and between updates t names the tip of the header list.
TipEquality ==
    /\ pc = "apply" =>
          /\ ListTip(HeaderListApply(indexed_headers, headers_not_indexed)) = tip
          /\ DurableTip = Some(tip)
    /\ pc = "idle" =>
          \/ DurableTip = None /\ indexed_headers = << >>
          \/ DurableTip = Some(ListTip(indexed_headers))

\* apply is about to replace a suffix of the header list
WitnessApplyReorg ==
    /\ pc = "apply"
    /\ headers_not_indexed # << >>
    /\ Height(headers_not_indexed[1]) < Len(indexed_headers)

\* the outputs funded to the script by a transaction confirmed on the best
\* chain and not spent by one, from the chain data alone
UnspentOnBestChain(scripthash) ==
    LET blocks == {b \in Range(indexed_headers) : BlockTxdata(b) # << >>}
        txs == {BlockTxdata(b)[1] : b \in blocks}
        spent == {tx.input[i].previous_output : tx \in txs, i \in 1..1}
        funded == UNION {{[txid |-> BlockTxdata(b)[1].txid, vout |-> j - 1] :
                             j \in {i \in 1..Len(BlockTxdata(b)[1].output) :
                                       BlockTxdata(b)[1].output[i].script_pubkey = scripthash}} :
                         b \in blocks}
    IN funded \ spent

\* C7: stats(scripthash), whatever A cache row earlier calls left, equals
\* stats_delta from the default stats at height 0 on the current best chain.
StatsCacheEquivalence ==
    pc = "idle" =>
        \A sh \in Scripts :
            stats(Cur, sh).stats = stats_delta(Cur, sh, ScriptStats_default, 0).stats

\* an A cache row whose tip_blockhash was orphaned by a reorg, for a script
\* with history on the new best chain
WitnessStatsCacheOrphaned ==
    /\ pc = "idle"
    /\ \E r \in disk["cache"] :
          /\ r.k = StatsCacheRow_key("A")
          /\ ~InList(indexed_headers, r.v.blockhash)
    /\ stats(Cur, "A").stats.funded_txo_count > 0

\* C8: utxo(scripthash, limit), whatever U cache row earlier calls left,
\* returns the entries of utxo_delta from the empty map at height 0.
UtxoCacheEquivalence ==
    pc = "idle" =>
        \A sh \in Scripts, limit \in 1..MaxLimit :
            LET r == utxo(Cur, sh, limit)
                scratch == utxo_delta(Cur, sh, {}, 0, limit)
            IN (r.err = None /\ scratch.err = None) => r.utxos = scratch.utxos

\* C9: an Ok result of utxo() is exactly the set of outputs funded to the
\* script on the best chain and unspent on the best chain.
UtxoExact ==
    pc = "idle" =>
        \A sh \in Scripts, limit \in 1..MaxLimit :
            LET r == utxo(Cur, sh, limit)
            IN r.err = None => {u.outpoint : u \in r.utxos} = UnspentOnBestChain(sh)

\* C10: when utxo() is Ok, funded_txo_count - spent_txo_count of stats()
\* is the number of entries utxo() returns.
UtxoConservation ==
    pc = "idle" =>
        \A sh \in Scripts, limit \in 1..MaxLimit :
            LET r == utxo(Cur, sh, limit)
                s == stats(Cur, sh).stats
            IN r.err = None =>
                  s.funded_txo_count - s.spent_txo_count = Cardinality(r.utxos)

\* the process state after the step
CurNext ==
    [disk |-> disk', mem |-> mem', added_blockhashes |-> added_blockhashes',
     indexed_headers |-> indexed_headers', flush |-> flush', from |-> from',
     pc |-> pc', tip |-> tip', headers_not_indexed |-> headers_not_indexed',
     work |-> work', full_compactions |-> full_compactions',
     auto_compaction |-> auto_compaction', query |-> query']

\* C11: over a step that leaves the header list as it is (a query, with or
\* without a cache row written) or only extends it, tx_count,
\* funded_txo_count and spent_txo_count of stats() do not decrease.
StatsMonotone ==
    [][(pc = "idle" /\ pc' = "idle" /\ IsPrefix(indexed_headers, indexed_headers')) =>
          \A sh \in Scripts :
              LET earlier == stats(Cur, sh).stats
                  later == stats(CurNext, sh).stats
              IN /\ later.tx_count >= earlier.tx_count
                 /\ later.funded_txo_count >= earlier.funded_txo_count
                 /\ later.spent_txo_count >= earlier.spent_txo_count]_vars

\* the chain was extended, never reorganised, past the block of a persisted
\* A cache row, and the stats count both transactions
WitnessStatsExtendedPastCache ==
    /\ pc = "idle"
    /\ reorgs = 0
    /\ \E r \in disk["cache"] :
          /\ r.k = StatsCacheRow_key("A")
          /\ InList(indexed_headers, r.v.blockhash)
          /\ Height(r.v.blockhash) < Len(indexed_headers) - 1
    /\ stats(Cur, "A").stats.tx_count = 2

\* C12: an Ok result of utxo(scripthash, limit) has at most limit entries,
\* the entries taken over from the U cache row included.
UtxoWithinLimit ==
    pc = "idle" =>
        \A sh \in Scripts, limit \in 0..MaxLimit :
            LET r == utxo(Cur, sh, limit)
            IN r.err = None => Cardinality(r.utxos) <= limit

\* the position of a transaction in its block
TxPosition(e) ==
    CHOOSE i \in 1..Len(BlockTxdata(e.blockid.hash)) :
        BlockTxdata(e.blockid.hash)[i].txid = e.txid

\* (height, position in block) of a is before that of b
ChainBefore(a, b) ==
    \/ a.blockid.height < b.blockid.height
    \/ a.blockid.height = b.blockid.height /\ TxPosition(a) < TxPosition(b)

HistoryTxidsAscending ==
    pc = "idle" =>
        \A sh \in Scripts, limit \in 1..MaxLimit :
            LET r == history_txids(Cur, sh, limit)
            IN \A i, j \in 1..Len(r) : i < j => ChainBefore(r[i], r[j])

HistoryDescending ==
    pc = "idle" =>
        \A sh \in Scripts, limit \in 1..MaxLimit :
            LET r == history(Cur, sh, None, limit)
            IN \A i, j \in 1..Len(r) : i < j => ChainBefore(r[j], r[i])

\* C13: history_txids() is strictly ascending by (height, position in
\* block) and history(scripthash, None, limit) strictly descending.
HistoryOrder == HistoryTxidsAscending /\ HistoryDescending

\* C14: on an unchanged index, a page of history() followed by the page
\* after its last txid is history() with twice the limit.
HistoryPagination ==
    pc = "idle" =>
        \A sh \in Scripts, L \in 1..MaxLimit :
            LET first == history(Cur, sh, None, L)
                both == history(Cur, sh, None, 2 * L)
            IN IF first = << >> THEN both = << >>
               ELSE first \o history(Cur, sh, Some(first[Len(first)].txid), L) = both

\* two confirmed transactions in the history, after a reorg: with limit 1
\* each of the two pages holds one of them
WitnessTwoPages ==
    /\ pc = "idle"
    /\ reorgs >= 1
    /\ Len(history(Cur, "A", None, 1)) = 1
    /\ Len(history(Cur, "A", Some(history(Cur, "A", None, 1)[1].txid), 1)) = 1

\* C15: for every input (with a previous output) of a transaction of a
\* block of the header list, lookup_spend(previous_output) names that
\* transaction, the index of the input and the BlockId of the block.
SpendRoundTrip ==
    pc = "idle" =>
        \A b \in Range(indexed_headers) :
            \A n \in 1..Len(BlockTxdata(b)) :
                LET tx == BlockTxdata(b)[n]
                IN \A i \in 1..Len(tx.input) :
                       has_prevout(tx.input[i]) =>
                           lookup_spend(Cur, tx.input[i].previous_output)
                               = Some([txid |-> tx.txid, vin |-> i - 1,
                                       confirmed |-> Some([height |-> Height(b),
                                                           hash |-> b])])

\* T1 is confirmed on the best chain and also has the C row of a block
\* orphaned by a reorg
WitnessSpenderReconfirmed ==
    /\ pc = "idle"
    /\ \E b \in Range(indexed_headers) : BlockTxdata(b) = << Tx(2) >>
    /\ \E r \in disk["txstore"] :
          /\ r.k[1] = "C"
          /\ r.k[2] = 2
          /\ ~InList(indexed_headers, r.k[3])

\* C16: when no block of the header list holds a transaction spending
\* (T0,0), lookup_spend((T0,0)) is None and stats of the script of (T0,0)
\* reports spent_txo_count 0, whatever S and H rows orphaned blocks left.
OrphanedSpendIgnored ==
    (/\ pc = "idle"
     /\ \A b \in Range(indexed_headers) : BlockTxdata(b) # << Tx(2) >>) =>
        /\ lookup_spend(Cur, [txid |-> 1, vout |-> 0]) = None
        /\ stats(Cur, PrevTxo([txid |-> 1, vout |-> 0]).script_pubkey).stats.spent_txo_count = 0

\* the block with T1 was indexed, then replaced by a block of the same
\* height without T1 on top of the block with T0; the S row, the Spending
\* H row and an A cache row of the orphaned block are still stored
WitnessSpendOrphaned ==
    /\ pc = "idle"
    /\ \E b \in Range(indexed_headers) :
          /\ BlockTxdata(b) = << Tx(1) >>
          /\ Len(indexed_headers) > Height(b) + 1
          /\ BlockRow_new_done(Append(b, "s")) \in disk["history"]
          /\ ~InList(indexed_headers, Append(b, "s"))
          /\ \E r \in disk["cache"] :
                r.k = StatsCacheRow_key("A") /\ r.v.blockhash = Append(b, "s")
    /\ TxEdgeRow(1, 0, 2, 0) \in disk["history"]
    /\ \E r \in disk["history"] : r.k[1] = "H" /\ r.k[4] = 1

\* the blocks of the header list that a stored C row names for the txid
ConfirmingBlocks(txid) ==
    {b \in Range(indexed_headers) :
        <<"C", txid, b>> \in Keys(View(Cur, "txstore"))}

\* C17: tx_confirming_block(txid) is Some(b) exactly when a C row of the
\* txid names a block of the header list, and b is the BlockId of such a
\* block; otherwise (orphaned, or added and not yet applied) it is None.
ConfirmingBlockOnList ==
    \A txid \in Txids :
        LET r == tx_confirming_block(Cur, txid)
        IN IF ConfirmingBlocks(txid) = {} THEN r = None
           ELSE /\ r # None
                /\ r[1].hash \in ConfirmingBlocks(txid)
                /\ r[1].height = Height(r[1].hash)
                /\ \E n \in 1..Len(BlockTxdata(r[1].hash)) :
                       BlockTxdata(r[1].hash)[n].txid = txid

\* during an update T0 has the C row of a new block that is added and not
\* yet applied, and the C row of a block orphaned by the reorg
WitnessAddedNotApplied ==
    /\ pc \notin {"idle", "panicked"}
    /\ \E b \in Range(headers_not_indexed) :
          /\ <<"C", 1, b>> \in Keys(View(Cur, "txstore"))
          /\ ~InList(indexed_headers, b)
    /\ \E o \in added_blockhashes :
          /\ <<"C", 1, o>> \in Keys(disk["txstore"])
          /\ ~IsPrefix(o, node)
    /\ tx_confirming_block(Cur, 1) = None

\* C18: the header list holds, at heights 0..len-1 without gap, the chain
\* that ends at its tip; blockid_by_hash and height_by_hash answer exactly
\* for the blocks of that chain, with their height.
HeaderListIsBestChain ==
    /\ \A i \in 1..Len(indexed_headers) :
          /\ header_by_height(indexed_headers, i - 1)
                = Some([height |-> i - 1, hash |-> indexed_headers[i]])
          /\ Height(indexed_headers[i]) = i - 1
          /\ IsPrefix(indexed_headers[i], ListTip(indexed_headers))
    /\ header_by_height(indexed_headers, Len(indexed_headers)) = None
    /\ \A h \in BlockHashes(MaxHeight) :
          IF indexed_headers # << >> /\ IsPrefix(h, ListTip(indexed_headers))
          THEN /\ height_by_hash(Cur, h) = Some(Height(h))
               /\ blockid_by_hash(Cur, h) = Some([height |-> Height(h), hash |-> h])
          ELSE /\ height_by_hash(Cur, h) = None
               /\ blockid_by_hash(Cur, h) = None

\* after a reorg was applied a block that had been indexed is orphaned
WitnessOrphanedHeader ==
    /\ pc = "idle"
    /\ Len(indexed_headers) = MaxHeight + 1
    /\ \E h \in BlockHashes(MaxHeight) :
          /\ HasDone(disk["history"], h)
          /\ ~IsPrefix(h, ListTip(indexed_headers))
          /\ blockid_by_hash(Cur, h) = None

\* the value of the tip sentinel t as the process reads it
TipRowOf(st) == {r.v : r \in {q \in View(st, "txstore") : q.k = <<"t">>}}

\* C19: once a node RPC call of the running update() has failed -- the
\* fetch of a previous transaction by the tweak stage included -- update()
\* has returned (the Err), no block has been marked done (D) in any
\* namespace by that step or after it, and t has not been written.
RpcFailurePropagated ==
    [][rpc_failed' =>
          /\ pc' = "idle"
          /\ \A ns \in Pipeline :
                load_blockhashes(View(CurNext, ns)) = load_blockhashes(View(Cur, ns))
          /\ TipRowOf(CurNext) = TipRowOf(Cur)]_vars

\* the namespace whose D markers guard a stage
StageNamespace(stage) ==
    IF stage = "add" THEN "txstore" ELSE IF stage = "index" THEN "history" ELSE "tweak"

\* no block waiting in the work list of the running stage is marked done in
\* the namespace of that stage
WorkListUnmarked(st) ==
    st.pc \in {"add", "index", "tweak"} =>
        \A b \in Range(st.work) : ~HasDone(View(st, StageNamespace(st.pc)), b)

\* the done sets are the D markers on disk
DoneSetsFromDisk(st) ==
    /\ st.added_blockhashes = load_blockhashes(st.disk["txstore"])
    /\ indexed_blockhashes(st) = load_blockhashes(st.disk["history"])
    /\ tweaked_blockhashes(st) = load_blockhashes(st.disk["tweak"])

\* C20: across updates, crashes and restarts, the work list of a stage (add,
\* index, tweak) never holds a block whose D marker is present in the
\* namespace of that stage, so no stage processes a block already marked
\* done; and after Store::open (the restart step) the done sets are the sets
\* of D markers on disk.
NoBlockProcessedTwice ==
    [][/\ WorkListUnmarked(CurNext)
       /\ (crashes' # crashes \/ pc = "panicked") => DoneSetsFromDisk(CurNext)]_vars

\* after a restart an update() computes the work list of the add stage from
\* headers of which one is already marked done on disk, and leaves it out
WitnessMarkedBlockLeftOut ==
    /\ crashes = 1
    /\ pc = "add"
    /\ flush = "Disable"
    /\ mem["txstore"] = << >>
    /\ \E b \in Range(headers_not_indexed) :
          HasDone(disk["txstore"], b) /\ b \notin Range(work)

\* C21: the work list of every stage of an update() holds only headers of
\* that update's headers_not_indexed.
WorkListWithinNewHeaders ==
    pc \in {"add", "index", "tweak"} =>
        Range(work) \subseteq Range(headers_not_indexed)

\* =================================================================
\* The fetch-source specification: the pipeline step by step on a chain that
\* only grows, the Indexer opened with any fetch source and fetch_from()
\* called between updates.
\* =================================================================
FetchFromValues == {"Bitcoind", "BlkFiles", "BlkFilesReverse"}

\* Indexer::fetch_from
fetch_from(st, f) == [st EXCEPT !.from = f]

InitF ==
    /\ node = Genesis
    /\ reorgs = 0
    /\ crashes = 0
    /\ overflow_checks \in BOOLEAN
    /\ rpc_failed = FALSE
    /\ \E f \in FetchFromValues :
          Is(fetch_from(open([ns \in Namespaces |-> {}]), f))

FetchFrom == pc = "idle" /\ \E f \in FetchFromValues \ {from} : Step(fetch_from(Cur, f))

NextF ==
    \/ NodeExtend(MaxHeightF)
    \/ FetchFrom
    \/ UpdateStart
    \/ AddBatch
    \/ AddCompact
    \/ IndexStart
    \/ IndexBatch
    \/ IndexCompact
    \/ TweakStart
    \/ TweakBlock
    \/ TweakCompact
    \/ UpdateFlush
    \/ UpdatePutTip
    \/ UpdateApply

SpecF == InitF /\ [][NextF]_vars

\* C22: an update() that reaches its end leaves the fetch source at the node
\* RPC (Bitcoind), whatever source it started with, and from then on the
\* source stays Bitcoind in every step that is not a call of fetch_from().
FetchSwitchedToRpc ==
    [][/\ (pc = "apply" /\ pc' = "idle") => from' = "Bitcoind"
       /\ (from = "Bitcoind" /\ ~(pc = "idle" /\ pc' = "idle")) => from' = "Bitcoind"]_vars

\* the fetch source get_headers_to_use is to leave behind: BlkFilesReverse
\* exactly when the source is BlkFiles, total = len - start_height exceeds
\* lookup_len and the excess is less than len / 2
ExpectedSource(st, lookup_len, start_height) ==
    LET len == Len(st.indexed_headers)
        total == len - start_height
    IN IF /\ st.from = "BlkFiles"
          /\ total > lookup_len
          /\ total - lookup_len < len \div 2
       THEN "BlkFilesReverse" ELSE st.from

\* C23: whenever update() is about to compute to_index or to_tweak on a
\* header list of at least start_height entries, get_headers_to_use returns
\* and leaves the fetch source ExpectedSource names.
SourceSwitchExact ==
    /\ pc = "to_index" =>
          LET n == Cardinality(indexed_blockhashes(Cur))
              r == get_headers_to_use(Cur, n, headers_not_indexed, 0)
          IN ~r.panic /\ r.from = ExpectedSource(Cur, n, 0)
    /\ (pc = "to_tweak" /\ Len(indexed_headers) >= sp_begin_height) =>
          LET n == Cardinality(tweaked_blockhashes(Cur))
              r == get_headers_to_use(Cur, n, headers_not_indexed, sp_begin_height)
          IN ~r.panic /\ r.from = ExpectedSource(Cur, n, sp_begin_height)

\* =================================================================
\* The query-frame specification: complete updates interleaved with the
\* public ChainQuery operations that write (stats, utxo,
\* store_tweak_cache_height).
\* =================================================================
\* TweakBlockRecordCacheRow::key / value
TweakBlockRecordCacheRow_key(height) == <<"B", height>>

\* ChainQuery::store_tweak_cache_height
store_tweak_cache_height(st, height, tip_height) ==
    DbPutSync(st, "tweak", TweakBlockRecordCacheRow_key(height), tip_height)

StoreTweakCacheHeight ==
    /\ pc = "idle"
    /\ \E height \in 0..MaxCacheHeight, tip_height \in 0..MaxCacheHeight :
          Step(store_tweak_cache_height(Cur, height, tip_height))

NextW ==
    \/ NodeExtend(MaxHeight)
    \/ UpdateAll
    \/ Stats
    \/ Utxo
    \/ StoreTweakCacheHeight

SpecW == InitQ /\ [][NextW]_vars

\* the rows of txstore, history and tweak as the process reads them
PipelineRows(st) == [ns \in Pipeline |-> View(st, ns)]

\* C24: in every state reached by updates and queries, each public
\* ChainQuery operation that writes (stats, utxo, store_tweak_cache_height)
\* leaves the rows of txstore, history and tweak as they are.
QueriesWriteCacheOnly ==
    /\ \A sh \in Scripts : PipelineRows(stats(Cur, sh).st) = PipelineRows(Cur)
    /\ \A sh \in Scripts, limit \in 1..MaxLimit :
          PipelineRows(utxo(Cur, sh, limit).st) = PipelineRows(Cur)
    /\ \A height \in 0..MaxCacheHeight, tip_height \in 0..MaxCacheHeight :
          PipelineRows(store_tweak_cache_height(Cur, height, tip_height)) = PipelineRows(Cur)

\* the O rows add writes for block b and the O rows the inputs of b refer to
OutputKeys(b) ==
    UNION {{TxOutKey([txid |-> BlockTxdata(b)[i].txid, vout |-> j - 1]) :
               j \in {k \in 1..Len(BlockTxdata(b)[i].output) :
                         is_spendable(BlockTxdata(b)[i].output[k])}} :
           i \in 1..Len(BlockTxdata(b))}

FundingKeys(b) == {TxOutKey(o) : o \in get_previous_txos(<< b >>)}

\* C25: while stage index runs, every block it is still to process has its
\* D marker and its O rows in txstore, and so has every output its inputs
\* spend, so that neither 'cannot index block (missing from store)' nor
\* 'missing txo' can fire on any batch; once the tweak stage is reached every
\* header of the update has its D marker in history.
IndexAfterAdd ==
    /\ pc = "index" =>
          /\ \A b \in Range(work) :
                /\ b \in added_blockhashes
                /\ HasDone(View(Cur, "txstore"), b)
                /\ OutputKeys(b) \cup FundingKeys(b) \subseteq Keys(View(Cur, "txstore"))
          /\ \A n \in 1..Len(work) : index(Cur, n).pc # "panicked"
    /\ pc \in {"to_tweak", "tweak", "tweak_compact"} =>
          \A b \in Range(headers_not_indexed) : HasDone(View(Cur, "history"), b)

\* after a crash stage index is about to process the block that holds T1,
\* the spender of an output of T0
WitnessIndexSpenderAfterCrash ==
    /\ crashes = 1
    /\ pc = "index"
    /\ \E b \in Range(work) : BlockTxdata(b) = << Tx(2) >>

\* the U row of the script holds the set of a block of the header list
UtxoCacheValid(st, sh) ==
    LET c == DbGet(st, "cache", UtxoCacheRow_key(sh))
    IN c # None /\ height_by_hash(st, c[1].blockhash) # None

\* the history rows utxo() processes: the H rows of the script from the
\* height after the cached block (from 0 without valid cache) whose
\* transaction is confirmed on the best chain
UtxoRowsProcessed(st, sh) ==
    LET c == DbGet(st, "cache", UtxoCacheRow_key(sh))
        start == IF UtxoCacheValid(st, sh)
                 THEN height_by_hash(st, c[1].blockhash)[1] + 1 ELSE 0
    IN Cardinality({k \in Keys(View(st, "history")) :
                       /\ k[1] = "H" /\ k[2] = sh /\ k[3] >= start
                       /\ tx_confirming_block(st, get_txid(k)) # None})

\* C26: after a call of utxo() that returns Ok the cache holds a valid U row
\* of the script if and only if a valid one existed before the call or the
\* call processed at least MIN_HISTORY_ITEMS_TO_CACHE history rows.
UtxoCachePersistedIff ==
    \A sh \in Scripts, limit \in 1..MaxLimit :
        LET r == utxo(Cur, sh, limit)
        IN (pc = "idle" /\ r.err = None) =>
              (UtxoCacheValid(r.st, sh) <=>
                  \/ UtxoCacheValid(Cur, sh)
                  \/ UtxoRowsProcessed(Cur, sh) >= MIN_HISTORY_ITEMS_TO_CACHE)

\* C27: the tweak stage never works on a block below sp_begin_height, and the
\* tweak namespace, on disk and as read, holds no D, W or K row of such a
\* block.
NoTweakBelowBeginHeight ==
    /\ pc = "tweak" => \A b \in Range(work) : Height(b) >= sp_begin_height
    /\ \A r \in disk["tweak"] \cup View(Cur, "tweak") :
          /\ r.k[1] \in {"D", "W"} => Height(r.k[2]) >= sp_begin_height
          /\ r.k[1] = "K" => r.k[2] >= sp_begin_height

\* the header list starts with a block below sp_begin_height that is marked
\* done in history, and a later block has been tweaked
WitnessTweakedAboveBeginHeight ==
    /\ pc = "idle"
    /\ Len(indexed_headers) > sp_begin_height
    /\ \A i \in 1..sp_begin_height : HasDone(disk["history"], indexed_headers[i])
    /\ \E b \in Range(indexed_headers) : HasDone(disk["tweak"], b)

\* Store::done_initial_sync
done_initial_sync(st) == DbGet(st, "txstore", <<"t">>) # None

\* C28: done_initial_sync() is false on the fresh store; it becomes true in
\* the step of update() that sync-writes t and in no other step; once true it
\* is true in every later state, a restart included; and the header list
\* Store::open builds is empty exactly when t is absent.
InitialSyncFlag ==
    /\ ~done_initial_sync(Cur)
    /\ [][/\ done_initial_sync(Cur) => done_initial_sync(CurNext)
          /\ (~done_initial_sync(Cur) /\ done_initial_sync(CurNext)) =>
                (pc = "put_tip" /\ pc' = "apply")
          /\ ((crashes' # crashes \/ pc = "panicked") /\ pc' # "panicked") =>
                (indexed_headers' = << >> <=> ~done_initial_sync(CurNext))]_vars

\* a process restarted on a store that holds t
WitnessRestartedSynced ==
    /\ crashes = 1
    /\ pc = "idle"
    /\ flush = "Disable"
    /\ done_initial_sync(Cur)
    /\ indexed_headers # << >>

\* a transaction with one input (spending output 0 of T0) and one output, of
\* every combination of the properties tweak_transaction looks at
ProbeTx(value, spendable, p2tr, pubkey) ==
    [txid |-> 2,
     input |-> << [previous_output |-> [txid |-> 1, vout |-> 0], pubkey |-> pubkey] >>,
     output |-> << [script_pubkey |-> "A", value |-> value,
                    spendable |-> spendable, p2tr |-> p2tr] >>]

\* the transaction has a spendable v1 P2TR output of at least sp_min_dust
HasEligibleOutput(tx) ==
    \E j \in 1..Len(tx.output) :
        /\ tx.output[j].spendable
        /\ tx.output[j].p2tr
        /\ tx.output[j].value >= sp_min_dust

\* the transaction has an input whose public key can be recovered
HasInputPubkey(tx) == \E j \in 1..Len(tx.input) : tx.input[j].pubkey

\* C29: tweak_transaction yields a K row for a transaction exactly when the
\* transaction has a spendable v1 P2TR output of at least sp_min_dust and a
\* public key was collected from one of its inputs (the previous transaction
\* was fetched and the key recovered); and every step of the tweak stage
\* leaves W and D of the block it processed, having written a K row only
\* for such a transaction of that block and, when every fetch of the update was answered,
\* for each of them.
TweakRowsExact ==
    [][/\ pc = "tweak" =>
          \A value \in 0..2, spendable \in BOOLEAN, p2tr \in BOOLEAN,
             pubkey \in BOOLEAN, fetched \in SUBSET {1} :
             LET tx == ProbeTx(value, spendable, p2tr, pubkey)
                 rows == tweak_transaction(Cur, 1, tx, fetched)
             IN /\ rows # {} <=> (HasEligibleOutput(tx) /\ pubkey /\ 1 \in fetched)
                /\ \A r \in rows : r.k = <<"K", 1, tx.txid>>
       /\ (pc = "tweak" /\ pc' \in {"tweak", "tweak_compact"}) =>
             \A b \in Range(work) \ Range(work') :
                LET rows == View(CurNext, "tweak")
                    txs == Range(BlockTxdata(b))
                    krows == {r \in rows \ View(Cur, "tweak") : r.k[1] = "K"}
                IN /\ HasDone(rows, b)
                   /\ <<"W", b>> \in Keys(rows)
                   /\ \A r \in krows :
                         \E tx \in txs : /\ r.k = <<"K", Height(b), tx.txid>>
                                         /\ HasEligibleOutput(tx)
                                         /\ HasInputPubkey(tx)
                   /\ ~rpc_failed' =>
                         \A tx \in txs :
                            (HasEligibleOutput(tx) /\ HasInputPubkey(tx)) =>
                                <<"K", Height(b), tx.txid>> \in Keys(rows)]_vars

\* the block of T0 (eligible output, no input key) is marked done in tweak
\* without K row, the block of T1 with its K row
WitnessTweakWithAndWithoutK ==
    /\ pc = "idle"
    /\ HasDone(disk["tweak"], << "f" >>)
    /\ HasDone(disk["tweak"], << "f", "s" >>)
    /\ {r.k[3] : r \in {q \in disk["tweak"] : q.k[1] = "K"}} = {2}

\* the H rows of the history namespace
HistoryRowsOf(st, sh) ==
    {k \in Keys(View(st, "history")) : k[1] = "H" /\ k[2] = sh}

\* C30: for two history rows of one scripthash with different heights the
\* byte order of the serialized keys is the numeric order of the heights;
\* history_iter_scan(H, sh, start_height) yields each row of the scripthash
\* with confirmed_height >= start_height once, in ascending height, and
\* nothing else.
HistoryScanByHeight ==
    \A sh \in Scripts :
        /\ \A a \in HistoryRowsOf(Cur, sh), b \in HistoryRowsOf(Cur, sh) :
              a[3] < b[3] =>
                 KeyLessFrom(TxHistoryRow_into_row(a), TxHistoryRow_into_row(b), 3)
        /\ \A start_height \in 0..(MaxHeightQ + 1) :
              LET scan == history_iter_scan(Cur, "H", sh, start_height)
              IN /\ Range(scan) = {k \in HistoryRowsOf(Cur, sh) : k[3] >= start_height}
                 /\ \A i \in 1..Len(scan), j \in 1..Len(scan) :
                       /\ i < j => scan[i][3] <= scan[j][3]
                       /\ i # j => scan[i] # scan[j]

\* the script has history rows at two heights whose serialized heights
\* differ in more than the last byte, and a scan from the higher one leaves
\* rows out
WitnessScanAcrossBytes ==
    /\ pc = "idle"
    /\ \E a \in HistoryRowsOf(Cur, "A"), b \in HistoryRowsOf(Cur, "A") :
          /\ a[3] = 1 /\ b[3] = 2
          /\ Len(history_iter_scan(Cur, "H", "A", 2)) < Len(history_iter_scan(Cur, "H", "A", 0))

\* =================================================================
\* Compaction
\* =================================================================
\* the position of update() at which start_auto_compactions of the
\* namespace runs, and the stage before it
CompactStage(ns) ==
    IF ns = "txstore" THEN [stage |-> "add", compact |-> "add_compact"]
    ELSE IF ns = "history" THEN [stage |-> "index", compact |-> "index_compact"]
    ELSE [stage |-> "tweak", compact |-> "tweak_compact"]

UnderflowsOf(st, lookup_len, start_height) ==
    LET total == UsizeSub(Len(st.indexed_headers), start_height)
        left == UsizeSub(lookup_len, total.value)
    IN [total |-> total.overflow,
        left |-> /\ ~(overflow_checks /\ total.overflow)
                 /\ total.value > lookup_len
                 /\ left.overflow]

\* C32: no call of get_headers_to_use, from headers_to_index (start_height 0)
\* or from headers_to_tweak (start_height sp_begin_height), evaluates
\* indexed_headers.len() - start_height or lookup_len - count_total_indexed
\* with a left operand smaller than the right one.
NoUsizeUnderflow ==
    /\ pc = "to_index" =>
          LET u == UnderflowsOf(Cur, Cardinality(indexed_blockhashes(Cur)), 0)
          IN ~u.total /\ ~u.left
    /\ pc = "to_tweak" =>
          LET u == UnderflowsOf(Cur, Cardinality(tweaked_blockhashes(Cur)), sp_begin_height)
          IN ~u.total /\ ~u.left

\* =================================================================
\* stats against the chain
\* =================================================================
RECURSIVE SumValues(_)
SumValues(S) ==
    IF S = {} THEN 0
    ELSE LET x == CHOOSE y \in S : TRUE IN x.value + SumValues(S \ {x})

\* the statistics of a script from the chain data alone: the transactions of
\* the blocks of the header list, their outputs paying the script and their
\* inputs spending such an output
StatsOfBestChain(scripthash) ==
    LET onchain == UNION {Range(BlockTxdata(b)) : b \in Range(indexed_headers)}
        Funding(tx) ==
            {[txid |-> tx.txid, n |-> j, value |-> tx.output[j].value] :
                 j \in {i \in 1..Len(tx.output) :
                           tx.output[i].script_pubkey = scripthash}}
        Spending(tx) ==
            {[txid |-> tx.txid, n |-> j,
              value |-> PrevTxo(tx.input[j].previous_output).value] :
                 j \in {i \in 1..Len(tx.input) :
                           /\ tx.input[i].previous_output # NullOutPoint
                           /\ PrevTxo(tx.input[i].previous_output).script_pubkey
                                 = scripthash}}
        funding == UNION {Funding(tx) : tx \in onchain}
        spending == UNION {Spending(tx) : tx \in onchain}
    IN [tx_count |-> Cardinality({e.txid : e \in funding \cup spending}),
        funded_txo_count |-> Cardinality(funding),
        funded_txo_sum |-> SumValues(funding),
        spent_txo_count |-> Cardinality(spending),
        spent_txo_sum |-> SumValues(spending)]

\* C33: in every state between two updates stats(scripthash) equals the
\* statistics computed from the best chain alone: the number of distinct
\* best-chain transactions that fund or spend the script, the count and sum
\* of its funding outputs and the count and sum of its spends; rows of
\* orphaned blocks and rows at a height other than the transaction's
\* best-chain height are not counted.
StatsMatchBestChain ==
    pc = "idle" =>
        \A sh \in Scripts : stats(Cur, sh).stats = StatsOfBestChain(sh)

\* the history holds a funding row of T0 at a height at which the best chain
\* does not confirm it, T0 is confirmed at another height, and T1, which
\* both spends and funds the script, is confirmed too
WitnessStatsStaleRow ==
    /\ pc = "idle"
    /\ \E r \in View(Cur, "history"), i \in 1..Len(indexed_headers) :
          /\ r.k[1] = "H" /\ r.k[2] = "A" /\ r.k[4] = 0 /\ get_txid(r.k) = 1
          /\ BlockTxdata(indexed_headers[i]) = << Tx(1) >>
          /\ r.k[3] # i - 1
    /\ \E i \in 1..Len(indexed_headers) : BlockTxdata(indexed_headers[i]) = << Tx(2) >>
    /\ stats(Cur, "A").stats.tx_count = 2

\* =================================================================
\* Spending inputs recorded in the tweak rows
\* =================================================================
\* the transactions of the best chain (the header list after the step) that
\* spend the outpoint, from the chain data alone
SpendersOnBestChain(list, outpoint) ==
    {tx \in UNION {Range(BlockTxdata(b)) : b \in Range(list)} :
        \E i \in 1..Len(tx.input) : tx.input[i].previous_output = outpoint}

\* C34: the K rows an update() writes record, for each eligible output, the
\* spending input as lookup_spend returns it at the end of that update:
\* Some(s) exactly if a transaction s of the best chain spends the output
\* then, a spender confirmed by a block of the same update included.
SpendingInputAsOfUpdateEnd ==
    [][\A r \in View(CurNext, "tweak") \ View(Cur, "tweak") :
          (r.k[1] = "K" /\ pc' = "idle") =>
              \A v \in r.v.vout_data :
                  LET outpoint == [txid |-> r.k[3], vout |-> v.vout]
                  IN /\ v.spending_input = lookup_spend(CurNext, outpoint)
                     /\ v.spending_input # None <=>
                           \E s \in SpendersOnBestChain(indexed_headers', outpoint) :
                               v.spending_input[1].txid = s.txid
      ]_vars

\* =================================================================
\* update() returning Err
\* =================================================================
\* update() returns: its locals go out of scope, the fields of the Indexer
\* and of the Store stay as the stages left them
return_err(st) ==
    [st EXCEPT !.pc = "idle", !.tip = NullHash,
               !.headers_not_indexed = << >>, !.work = << >>]

\* update() from position st.pc up to the start_fetcher call of the stage
\* `stop` (or to its return, or panic, if that stage has no work)
RECURSIVE run_to(_, _)
run_to(st, stop) ==
    IF st.pc = stop THEN st
    ELSE IF st.pc = "add" THEN run_to(add(st, Len(st.work)), stop)
    ELSE IF st.pc = "add_compact" THEN run_to(add_compact(st), stop)
    ELSE IF st.pc = "to_index" THEN run_to(index_start(st), stop)
    ELSE IF st.pc = "index" THEN run_to(index(st, Len(st.work)), stop)
    ELSE IF st.pc = "index_compact" THEN run_to(index_compact(st), stop)
    ELSE IF st.pc = "to_tweak" THEN run_to(tweak_start(st), stop)
    ELSE IF st.pc = "tweak" THEN run_to(tweak(st, 1, block_prev_txids(st, st.work[1])), stop)
    ELSE IF st.pc = "tweak_compact" THEN run_to(tweak_compact(st), stop)
    ELSE IF st.pc = "flush" THEN run_to(update_flush(st), stop)
    ELSE IF st.pc = "put_tip" THEN run_to(update_put_tip(st), stop)
    ELSE IF st.pc = "apply" THEN run_to(update_apply(st), stop)
    ELSE st

FailingCalls == {"rpc", "add", "index", "tweak"}

\* update() up to the call that fails: "rpc" is reconnect, getbestblockhash
\* or get_new_headers (lines 340-342), the others the start_fetcher of the
\* stage (lines 351, 362, 373)
update_to_failure(st, best, call) ==
    IF call = "rpc" THEN st ELSE run_to(update_start(st, best), call)

\* an update() that returns Err
UpdateFails ==
    /\ pc = "idle"
    /\ \E call \in FailingCalls :
          LET s == update_to_failure(Cur, node, call)
          IN /\ call # "rpc" => s.pc = call
             /\ StepRpc(return_err(s), TRUE)

NextE ==
    \/ NodeExtend(MaxHeight)
    \/ NodeReorg(MaxHeight)
    \/ UpdateAll
    \/ UpdateFails
    \/ Stats
    \/ Utxo

SpecE == InitQ /\ [][NextE]_vars

\* the answers of the queries that resolve confirmations through the header
\* list
ChainAnswers(st) ==
    [stats |-> [sh \in Scripts |-> stats(st, sh).stats],
     utxo |-> [sh \in Scripts |->
                  [limit \in 1..MaxLimit |->
                      [err |-> utxo(st, sh, limit).err,
                       utxos |-> utxo(st, sh, limit).utxos]]],
     history |-> [sh \in Scripts |->
                     [last \in {None} \cup {Some(t) : t \in Txids} |->
                         [limit \in 1..MaxLimit |-> history(st, sh, last, limit)]]],
     history_txids |-> [sh \in Scripts |->
                           [limit \in 1..MaxLimit |-> history_txids(st, sh, limit)]],
     tx_confirming_block |-> [t \in Txids |-> tx_confirming_block(st, t)],
     lookup_spend |-> [t \in Txids |-> lookup_spend(st, [txid |-> t, vout |-> 0])],
     blockid_by_height |-> [h \in 0..(MaxHeight + 1) |-> blockid_by_height(st, h)],
     height_by_hash |-> [b \in Range(st.indexed_headers) \cup {node} |->
                            height_by_hash(st, b)]]

\* the blocks whose D marker the namespace holds
Marked(st, ns) == load_blockhashes(View(st, ns))

\* the work list the stage `stage` of the next update() would take, empty if
\* that update does not come to the stage
RetryWork(st, best, stage) ==
    LET s == run_to(update_start(st, best), stage)
    IN IF s.pc = stage THEN Range(s.work) ELSE {}

\* `after` is the process after an update() on `before` that returned Err at
\* `call`: the tip row and the header list are those of before the call and
\* the queries answer as before; the D markers written by the stages that
\* completed are there and the stages of the retry leave the marked blocks
\* out
ErrLeavesState(before, after, best, call) ==
    /\ DbGet(after, "txstore", <<"t">>) = DbGet(before, "txstore", <<"t">>)
    /\ after.disk["txstore"] \cap {r \in after.disk["txstore"] : r.k = <<"t">>}
          = {r \in before.disk["txstore"] : r.k = <<"t">>}
    /\ after.indexed_headers = before.indexed_headers
    /\ ChainAnswers(after) = ChainAnswers(before)
    /\ \A ns \in Namespaces : View(before, ns) \subseteq View(after, ns)
    /\ call \in {"index", "tweak"} =>
          Range(update_start(before, best).work) \subseteq Marked(after, "txstore")
    /\ call = "tweak" =>
          RetryWork(before, best, "index") \subseteq Marked(after, "history")
    /\ RetryWork(after, best, "add") \cap Marked(after, "txstore") = {}
    /\ RetryWork(after, best, "index") \cap Marked(after, "history") = {}
    /\ RetryWork(after, best, "tweak") \cap Marked(after, "tweak") = {}

\* C35: an update() that returns Err (reconnect, getbestblockhash or
\* get_new_headers failing, or start_fetcher failing at the add, index or
\* tweak stage) leaves key t and the header list as they were before the
\* call and the queries answer as before; the rows and D markers of the
\* stages that completed remain and the retry does not process the marked
\* blocks again.
UpdateErrKeepsTip ==
    [][\A call \in FailingCalls :
          LET s == update_to_failure(Cur, node, call)
          IN (/\ pc = "idle"
              /\ call # "rpc" => s.pc = call
              /\ CurNext = return_err(s)
              /\ node' = node) =>
                 ErrLeavesState(Cur, CurNext, node, call)
      ]_vars

\* an update() has failed at the start_fetcher of its tweak stage after its
\* add and index stages wrote the rows of a block that replaces one of the
\* header list
WitnessFailedAfterIndex ==
    /\ pc = "idle"
    /\ rpc_failed
    /\ \E b \in Marked(Cur, "history") :
          /\ ~InList(indexed_headers, b)
          /\ Height(b) < Len(indexed_headers)
          /\ BlockTxdata(b) # << >>
          /\ b \notin Marked(Cur, "tweak")
          /\ Height(b) >= sp_begin_height

\* =================================================================
\* stats() and utxo() on a thread of their own, concurrent with update()
\* =================================================================
\* The call reads the cache row and resolves its blockhash (height_by_hash),
\* opens the history scan, then handles the rows one by one, each with a
\* tx_confirming_block read of the header list as it is at that moment, and
\* at the end writes the cache row.  The header list is locked for each read
\* alone, so update() may apply its new headers between two of them.

\* lines 907-923 / 802-823: the call up to the first row of the scan
stats_begin(st, scripthash) ==
    LET c == DbGet(st, "cache", StatsCacheRow_key(scripthash))
        height == IF c = None THEN None ELSE height_by_hash(st, c[1].blockhash)
    IN [st EXCEPT !.query =
           Some([kind |-> "stats", scripthash |-> scripthash, limit |-> 0,
                 had_cache |-> height # None,
                 rows |-> history_iter_scan(st, "H", scripthash,
                              IF height = None THEN 0 ELSE height[1] + 1),
                 acc |-> [stats |-> IF height = None THEN ScriptStats_default
                                    ELSE c[1].stats,
                          seen_txids |-> {}, lastblock |-> None]])]

utxo_begin(st, scripthash, limit) ==
    LET c == DbGet(st, "cache", UtxoCacheRow_key(scripthash))
        height == IF c = None THEN None ELSE height_by_hash(st, c[1].blockhash)
        old == IF height # None THEN from_utxo_cache(c[1].utxos, st)
               ELSE [ok |-> TRUE, utxos |-> {}]
    IN [st EXCEPT !.query =
           Some([kind |-> "utxo", scripthash |-> scripthash, limit |-> limit,
                 had_cache |-> height # None,
                 rows |-> history_iter_scan(st, "H", scripthash,
                              IF height = None THEN 0 ELSE height[1] + 1),
                 acc |-> [utxos |-> old.utxos, lastblock |-> None,
                          processed_items |-> 0,
                          err |-> IF old.ok THEN None ELSE Some("panic")]])]

\* one turn of the loop of stats_delta / utxo_delta
query_row(st) ==
    LET q == st.query[1]
        acc == IF q.kind = "stats" THEN stats_fold(st, << q.rows[1] >>, q.acc)
               ELSE utxo_fold(st, << q.rows[1] >>, q.limit, q.acc)
    IN [st EXCEPT !.query = Some([q EXCEPT !.rows = Tail(@), !.acc = acc])]

\* lines 925-938 / 825-859: the cache row is written and the call returns
query_end(st) ==
    LET q == st.query[1]
        done == [st EXCEPT !.query = None]
    IN IF q.acc.lastblock = None THEN done
       ELSE IF q.kind = "stats"
       THEN IF q.acc.stats.funded_txo_count + q.acc.stats.spent_txo_count
                  > MIN_HISTORY_ITEMS_TO_CACHE
            THEN DbWrite(done, "cache",
                         {StatsCacheRow(q.scripthash, q.acc.stats, q.acc.lastblock[1])},
                         "Enable")
            ELSE done
       ELSE IF /\ q.acc.err = None
               /\ q.had_cache \/ q.acc.processed_items > MIN_HISTORY_ITEMS_TO_CACHE
            THEN DbWrite(done, "cache",
                         {UtxoCacheRow(q.scripthash, q.acc.utxos, q.acc.lastblock[1])},
                         "Enable")
            ELSE done

\* the loop has ended: no row left, or the `?` of utxo_delta returned
QueryLoopEnded(q) ==
    q.rows = << >> \/ (q.kind = "utxo" /\ q.acc.err # None)

StatsBegin ==
    /\ pc \in {"idle", "apply"} /\ query = None
    /\ \E sh \in Scripts : Step(stats_begin(Cur, sh))

UtxoBegin ==
    /\ pc \in {"idle", "apply"} /\ query = None
    /\ \E sh \in Scripts, limit \in 1..MaxLimit : Step(utxo_begin(Cur, sh, limit))

QueryRow == query # None /\ ~QueryLoopEnded(query[1]) /\ Step(query_row(Cur))

QueryEnd == query # None /\ QueryLoopEnded(query[1]) /\ Step(query_end(Cur))

\* update() up to the write of the tip row, the apply of the new headers
\* left to UpdateApply
UpdateWrite ==
    /\ pc = "idle"
    /\ LET s == run_to(update_start(Cur, node), "apply")
       IN s.pc = "apply" /\ Step(s)

NextC ==
    \/ NodeExtend(MaxHeight)
    \/ NodeReorg(MaxHeight)
    \/ UpdateWrite
    \/ UpdateApply
    \/ StatsBegin
    \/ UtxoBegin
    \/ QueryRow
    \/ QueryEnd

SpecC == InitQ /\ [][NextC]_vars

\* the process with the header list ending at the block: the view in which a
\* call computes the result at that tip from scratch
AtTip(st, blockhash) == [st EXCEPT !.indexed_headers = BestChain(blockhash)]

\* the A rows a step persists hold stats_delta from the default stats at
\* height 0, computed at the tip_blockhash of the row
PersistedStatsExact ==
    \A r \in disk'["cache"] \ disk["cache"] :
        r.k[1] = "A" =>
            r.v.stats = stats_delta(AtTip(CurNext, r.v.blockhash), r.k[2],
                                    ScriptStats_default, 0).stats

\* the U rows a step persists hold utxo_delta from the empty map at height 0,
\* computed at the tip_blockhash of the row
PersistedUtxoExact ==
    \A r \in disk'["cache"] \ disk["cache"] :
        r.k[1] = "U" =>
            r.v.utxos = make_utxo_cache(
                            utxo_delta(AtTip(CurNext, r.v.blockhash), r.k[2], {}, 0,
                                       Cardinality(Txids)).utxos)

\* a call that runs alone after the step answers as a call without cache rows
LaterCallsExact ==
    (pc' = "idle" /\ query' = None) =>
        \A sh \in Scripts :
            /\ stats(CurNext, sh).stats
                  = stats_delta(CurNext, sh, ScriptStats_default, 0).stats
            /\ \A limit \in 1..MaxLimit :
                  LET r == utxo(CurNext, sh, limit)
                      d == utxo_delta(CurNext, sh, {}, 0, limit)
                  IN /\ r.err = d.err
                     /\ r.err = None => r.utxos = d.utxos

\* C36: a stats() or utxo() call that runs while update() applies the
\* headers of a reorganisation between two of its reads of the header list
\* persists no A or U cache row whose content differs from the result
\* computed from scratch at the tip_blockhash the row stores, and calls that
\* run later answer as without the cache rows.
ConcurrentQueryCacheExact ==
    [][PersistedStatsExact /\ PersistedUtxoExact /\ LaterCallsExact]_vars

\* =================================================================
\* Outpoints and the keys of the O and S rows
\* =================================================================
\* output indices a caller may pass: u32 values on both sides of the u16
\* range
ProbeVouts == {0, 1, U16Mod - 1, U16Mod, U16Mod + 1}

ProbeOutPoints == {[txid |-> t, vout |-> v] : t \in Txids, v \in ProbeVouts}

\* TxEdgeRow::filter: the key prefix of the S rows of an outpoint
TxEdgeRow_filter(outpoint) == <<"S", outpoint.txid, U16(outpoint.vout)>>

\* C37: distinct outpoints have distinct O keys and distinct S key prefixes;
\* lookup_txo((txid, v)) returns an output only if the output with exactly
\* the index v of txid was added, and lookup_spend((txid, v)) only a
\* transaction that spends exactly that output, for every 32-bit v.
OutPointKeysExact ==
    /\ \A a \in ProbeOutPoints, b \in ProbeOutPoints :
          a # b => /\ TxOutKey(a) # TxOutKey(b)
                   /\ TxEdgeRow_filter(a) # TxEdgeRow_filter(b)
    /\ pc = "idle" =>
          \A o \in ProbeOutPoints :
              /\ lookup_txo(Cur, o) # None =>
                    /\ o.vout + 1 \in 1..Len(Tx(o.txid).output)
                    /\ \E b \in added_blockhashes : Tx(o.txid) \in Range(BlockTxdata(b))
              /\ lookup_spend(Cur, o) # None =>
                    LET s == lookup_spend(Cur, o)[1]
                    IN Tx(s.txid).input[s.vin + 1].previous_output = o

\* the part of C37 within the u16 range
OutPointKeysExactBelowU16 ==
    pc = "idle" =>
        \A o \in {p \in ProbeOutPoints : p.vout < U16Mod} :
            /\ lookup_txo(Cur, o) # None =>
                  /\ o.vout + 1 \in 1..Len(Tx(o.txid).output)
                  /\ \E b \in added_blockhashes : Tx(o.txid) \in Range(BlockTxdata(b))
            /\ lookup_spend(Cur, o) # None =>
                  LET s == lookup_spend(Cur, o)[1]
                  IN Tx(s.txid).input[s.vin + 1].previous_output = o

\* =================================================================
\* ChainQuery::tweaks
\* =================================================================
\* TweakTxRow::into_row (key): code, big-endian blockheight, txid
TweakTxRow_into_key(k) == << k[1] >> \o serialize_big_u32(k[2], HeightBytes) \o << k[3] >>

\* TweakTxRow::from_row (key)
TweakTxRow_from_key(bytes) ==
    << bytes[1], deserialize_big_u32(SubSeq(bytes, 2, HeightBytes + 1)),
       bytes[HeightBytes + 2] >>

\* TweakTxRow::prefix_blockheight
TweakTxRow_prefix_blockheight(code, height) ==
    << code >> \o serialize_big_u32(height, HeightBytes)

\* ChainQuery::tweaks_iter_scan: the keys under the prefix `code` from
\* (code, height) on, in byte order
RECURSIVE TweakScanOrder(_)
TweakScanOrder(keys) ==
    IF keys = {} THEN << >>
    ELSE LET first == CHOOSE k \in keys : \A o \in keys \ {k} : KeyLessFrom(k, o, 2)
         IN << first >> \o TweakScanOrder(keys \ {first})

tweaks_iter_scan(st, code, height) ==
    LET stored == {TweakTxRow_into_key(k) :
                      k \in {q \in Keys(View(st, "tweak")) : q[1] = code}}
    IN TweakScanOrder({b \in stored :
                          ~KeyLessFrom(b, TweakTxRow_prefix_blockheight(code, height), 2)})

\* ChainQuery::tweaks(height): the (txid, TweakData) of the scanned rows
\* whose blockheight is `height`
tweaks(st, height) ==
    LET scan == tweaks_iter_scan(st, "K", height)
        keys == [i \in 1..Len(scan) |-> TweakTxRow_from_key(scan[i])]
        kept == SelectSeq(keys, LAMBDA k : k[2] = height)
    IN [i \in 1..Len(kept) |->
           [txid |-> kept[i][3], tweak |-> DbGet(st, "tweak", kept[i])[1]]]

\* C38: after any sequence of updates, reorganisations included, every
\* (txid, TweakData) returned by tweaks(height) is of a transaction that the
\* block of the header list at that height confirms; K rows written for an
\* orphaned block are not returned.
TweaksOnBestChain ==
    pc = "idle" =>
        \A height \in 0..MaxHeightQ :
            \A e \in Range(tweaks(Cur, height)) :
                /\ height < Len(indexed_headers)
                /\ Tx(e.txid) \in Range(BlockTxdata(indexed_headers[height + 1]))

\* =================================================================
\* ChainQuery::best_height
\* =================================================================
\* self.store.indexed_headers.read().unwrap().len() - 1, on usize
best_height(st) == UsizeSub(Len(st.indexed_headers), 1)

\* C39: best_height() never underflows: in every state in which a
\* ChainQuery can be called, a fresh store before the first update() has
\* applied any header included, the header list holds at least one header
\* when len() - 1 is evaluated.
BestHeightNoUnderflow == ~best_height(Cur).overflow

====
